---- MODULE Spec2Model ----
(***************************************************************************)
(* L7 protocol parsers of the deepflow agent: HttpLog (HTTP/1, HTTP/2,     *)
(* gRPC, Go uprobe framing) and MysqlLog, modelled at byte level.          *)
(* A payload is a sequence of bytes (0..255).  Rust slices are 0-based;    *)
(* the helpers below keep the 0-based offsets of the source.  An index or  *)
(* slice that would be out of range in the source, a failed unwrap, a      *)
(* failed assert or an unreachable!() sets the `panic` flag of the call.   *)
(***************************************************************************)
EXTENDS Integers, Sequences, FiniteSets, TLC

\* ------------------------------------------------------------------------
\* Option<T>: None is the empty sequence, Some(x) the one-element sequence.
None == <<>>
Some(x) == <<x>>
IsSome(o) == o # <<>>
IsNone(o) == o = <<>>
UnwrapOr(o, d) == IF o = <<>> THEN d ELSE o[1]

\* ------------------------------------------------------------------------
\* Slices.  Each returns a total value; the matching Oob* predicate says
\* whether the Rust expression would have panicked.
Min(a, b) == IF a < b THEN a ELSE b
Max(a, b) == IF a > b THEN a ELSE b
At(s, i) == IF i < Len(s) THEN s[i + 1] ELSE 0                 \* s[i]
Drop(s, n) == IF n <= Len(s) THEN SubSeq(s, n + 1, Len(s)) ELSE <<>>   \* &s[n..]
Take(s, n) == SubSeq(s, 1, Min(n, Len(s)))                     \* &s[..n]
Slice(s, a, b) == IF a <= b THEN SubSeq(s, a + 1, Min(b, Len(s))) ELSE <<>>  \* &s[a..b]
OobAt(s, i) == i >= Len(s)
OobDrop(s, n) == n > Len(s)
OobSlice(s, a, b) == a > b \/ b > Len(s)
StartsWith(s, p) == Len(s) >= Len(p) /\ SubSeq(s, 1, Len(p)) = p

RECURSIVE BitAnd(_, _)
BitAnd(a, b) ==
    IF a = 0 \/ b = 0 THEN 0
    ELSE (IF a % 2 = 1 /\ b % 2 = 1 THEN 1 ELSE 0) + 2 * BitAnd(a \div 2, b \div 2)

\* utils::bytes::read_u32_be / read_u32_le / read_u16_le (need 4, 4, 2 bytes).
\* TLC integers are 32-bit: the inputs keep the top bit of a u32 clear.
read_u32_be(s) == At(s, 0) * 16777216 + At(s, 1) * 65536 + At(s, 2) * 256 + At(s, 3)
\* read_u32_be(s) >> 8
read_u24_be(s) == At(s, 0) * 65536 + At(s, 1) * 256 + At(s, 2)
read_u32_le(s) == At(s, 0) + At(s, 1) * 256 + At(s, 2) * 65536 + At(s, 3) * 16777216
read_u16_le(s) == At(s, 0) + At(s, 1) * 256

\* str::from_utf8: one- and two-byte sequences are decoded; a lone
\* continuation byte, a truncated sequence or a longer lead byte is invalid
\* (the inputs of the model use nothing beyond that).
RECURSIVE IsUtf8(_)
IsUtf8(s) ==
    IF s = <<>> THEN TRUE
    ELSE IF s[1] < 128 THEN IsUtf8(Tail(s))
    ELSE IF s[1] >= 194 /\ s[1] <= 223 /\ Len(s) >= 2 /\ s[2] >= 128 /\ s[2] <= 191
         THEN IsUtf8(Drop(s, 2))
    ELSE FALSE
IsAscii(s) == \A i \in 1..Len(s) : s[i] < 128

\* String::from_utf8_lossy: every invalid byte becomes U+FFFD (EF BF BD).
RECURSIVE Lossy(_)
Lossy(s) ==
    IF s = <<>> THEN <<>>
    ELSE IF s[1] < 128 THEN <<s[1]>> \o Lossy(Tail(s))
    ELSE IF s[1] >= 194 /\ s[1] <= 223 /\ Len(s) >= 2 /\ s[2] >= 128 /\ s[2] <= 191
         THEN <<s[1], s[2]>> \o Lossy(Drop(s, 2))
    ELSE <<239, 191, 189>> \o Lossy(Tail(s))

IsDigit(b) == b >= 48 /\ b <= 57
RECURSIVE DecValue(_)
DecValue(s) == IF s = <<>> THEN 0 ELSE DecValue(Take(s, Len(s) - 1)) * 10 + (s[Len(s)] - 48)
\* <u16 as FromStr>::from_str / <u32 as FromStr>::from_str on bytes: an
\* optional '+', then digits only, within the range of the type.  TLC
\* integers are 32-bit: a number of more than MaxDigits digits is outside
\* the inputs and is rejected here for either type.
MaxDigits == 9
ParseU(s, max) ==
    LET d == IF s # <<>> /\ s[1] = 43 THEN Tail(s) ELSE s IN
    IF d # <<>> /\ Len(d) <= MaxDigits /\ (\A i \in 1..Len(d) : IsDigit(d[i]))
       /\ DecValue(d) <= max
    THEN Some(DecValue(d)) ELSE None
ParseU16(s) == ParseU(s, 65535)
ParseU32(s) == ParseU(s, 999999999)

\* ------------------------------------------------------------------------
\* Byte strings of the source
KEY_METHOD == <<58, 109, 101, 116, 104, 111, 100>>                    \* ":method"
KEY_STATUS == <<58, 115, 116, 97, 116, 117, 115>>                     \* ":status"
KEY_HOST == <<104, 111, 115, 116>>                                    \* "host"
KEY_AUTHORITY == <<58, 97, 117, 116, 104, 111, 114, 105, 116, 121>>   \* ":authority"
KEY_PATH == <<58, 112, 97, 116, 104>>                                 \* ":path"
KEY_GRPC_STATUS == <<103, 114, 112, 99, 45, 115, 116, 97, 116, 117, 115>>   \* "grpc-status"
KEY_CONTENT_TYPE == <<99, 111, 110, 116, 101, 110, 116, 45, 116, 121, 112, 101>>  \* "content-type"
KEY_CONTENT_LENGTH == <<99, 111, 110, 116, 101, 110, 116, 45, 108, 101, 110, 103, 116, 104>>  \* "content-length"
GRPC_CONTENT_TYPE == <<97, 112, 112, 108, 105, 99, 97, 116, 105, 111, 110, 47, 103, 114, 112, 99>>  \* "application/grpc"
HTTPV2_MAGIC_PREFIX == <<80, 82, 73, 32, 42, 32, 72, 84, 84, 80>>     \* "PRI * HTTP"
RESPONSE_PREFIX == <<72, 84, 84, 80, 47>>                             \* "HTTP/"
HTTP_V0_9_VERSION == <<72, 84, 84, 80, 47, 48, 46, 57>>               \* "HTTP/0.9"
HTTP_V1_0_VERSION == <<72, 84, 84, 80, 47, 49, 46, 48>>               \* "HTTP/1.0"
HTTP_V1_1_VERSION == <<72, 84, 84, 80, 47, 49, 46, 49>>               \* "HTTP/1.1"
M_GET == <<71, 69, 84>>
M_POST == <<80, 79, 83, 84>>
M_PUT == <<80, 85, 84>>
M_DELETE == <<68, 69, 76, 69, 84, 69>>
M_OPTIONS == <<79, 80, 84, 73, 79, 78, 83>>
M_HEAD == <<72, 69, 65, 68>>
M_TRACE == <<84, 82, 65, 67, 69>>
M_CONNECT == <<67, 79, 78, 78, 69, 67, 84>>
M_PATCH == <<80, 65, 84, 67, 72>>
M_LINK == <<76, 73, 78, 75>>
M_UNLINK == <<85, 78, 76, 73, 78, 75>>
M_COPY == <<67, 79, 80, 89>>
M_MOVE == <<77, 79, 86, 69>>
M_WRAPPED == <<87, 82, 65, 80, 80, 69, 68>>
M_EXTENSION_METHOD == <<69, 88, 84, 69, 78, 83, 73, 79, 78, 45, 77, 69, 84, 72, 79, 68>>

\* impl TryFrom<&str> for Method: None when the token is no method
MethodTryFrom(s) ==
    CASE s = M_GET -> Some("Get") [] s = M_HEAD -> Some("Head") [] s = M_POST -> Some("Post")
      [] s = M_PUT -> Some("Put") [] s = M_DELETE -> Some("Delete")
      [] s = M_CONNECT -> Some("Connect") [] s = M_OPTIONS -> Some("Options")
      [] s = M_TRACE -> Some("Trace") [] s = M_PATCH -> Some("Patch")
      [] OTHER -> None

\* Method::as_str
MethodAsStr(m) ==
    CASE m = "Get" -> M_GET [] m = "Head" -> M_HEAD [] m = "Post" -> M_POST
      [] m = "Put" -> M_PUT [] m = "Delete" -> M_DELETE [] m = "Connect" -> M_CONNECT
      [] m = "Options" -> M_OPTIONS [] m = "Trace" -> M_TRACE [] m = "Patch" -> M_PATCH
      [] OTHER -> <<>>

\* ------------------------------------------------------------------------
\* Constants of protocol_logs::consts (the values the specification states)
HTTPV2_FRAME_HEADER_LENGTH == 9
HTTPV2_MAGIC_LENGTH == 24
HTTPV2_CUSTOM_DATA_MIN_LENGTH == 16
HTTPV2_FRAME_DATA_TYPE == 0
HTTPV2_FRAME_HEADERS_TYPE == 1
HTTPV2_FRAME_TYPE_MAX == 9
FLAG_HEADERS_PADDED == 8
FLAG_HEADERS_PRIORITY == 32
FLAGS_STREAM_END == 1
HTTP_STATUS_CODE_MIN == 100
HTTP_STATUS_CODE_MAX == 599
HTTP_STATUS_CLIENT_ERROR_MIN == 400
HTTP_STATUS_CLIENT_ERROR_MAX == 499
HTTP_STATUS_SERVER_ERROR_MIN == 500
HTTP_STATUS_SERVER_ERROR_MAX == 599
HTTP_RESP_MIN_LEN == 13
GRPC_STATUS_OK == 0
GRPC_STATUS_CANCELLED == 1
GRPC_STATUS_INVALID_ARGUMENT == 3
GRPC_STATUS_NOT_FOUND == 5
GRPC_STATUS_PERMISSION_DENIED == 7
GRPC_STATUS_FAILED_PRECONDITION == 9
GRPC_STATUS_OUT_OF_RANGE == 11
GRPC_STATUS_UNAUTHENTICATED == 16

\* LogMessageType::from(PacketDirection)
MsgTypeFrom(dir) == IF dir = "c2s" THEN "Request" ELSE "Response"

\* Method::from_frame_type
MethodFromFrameType(t, dir) ==
    CASE t = HTTPV2_FRAME_DATA_TYPE /\ dir = "c2s" -> "_RequestData"
      [] t = HTTPV2_FRAME_DATA_TYPE /\ dir = "s2c" -> "_ResponseData"
      [] t = HTTPV2_FRAME_HEADERS_TYPE /\ dir = "c2s" -> "_RequestHeader"
      [] t = HTTPV2_FRAME_HEADERS_TYPE /\ dir = "s2c" -> "_ResponseHeader"
      [] OTHER -> "None"

\* Method::from_ebpf_type
MethodFromEbpfType(e, dir) ==
    CASE e = "GoHttp2UprobeData" /\ dir = "c2s" -> "_RequestData"
      [] e = "GoHttp2UprobeData" /\ dir = "s2c" -> "_ResponseData"
      [] e = "GoHttp2Uprobe" /\ dir = "c2s" -> "_RequestHeader"
      [] e = "GoHttp2Uprobe" /\ dir = "s2c" -> "_ResponseHeader"
      [] OTHER -> "None"

\* The priorities of a PrioField (src http.rs 62-64): a lower number takes
\* precedence.  PrioField::default() has the lowest precedence, u8::MAX.
PLUGIN_FIELD_PRIORITY == 0
CUSTOM_FIELD_POLICY_PRIORITY == PLUGIN_FIELD_PRIORITY + 1
BASE_FIELD_PRIORITY == CUSTOM_FIELD_POLICY_PRIORITY + 1
U8_MAX == 255
PrioField(prio, field) == [prio |-> prio, field |-> field]
DefaultPrioField == PrioField(U8_MAX, <<>>)
\* PrioField::is_default
is_default(f) == f = DefaultPrioField

\* HttpInfo::default()
DefaultHttpInfo ==
    [headers_offset |-> None, is_req_end |-> FALSE, is_resp_end |-> FALSE, rrt |-> 0,
     proto |-> "Unknown", msg_type |-> "Other", raw_data_type |-> "RawProtocol",
     stream_id |-> None, version |-> "Unknown", method |-> "None",
     path |-> <<>>, host |-> <<>>,
     req_content_length |-> None, resp_content_length |-> None,
     status_code |-> 0, status |-> "Unknown", grpc_status_code |-> None,
     endpoint |-> None, service_name |-> None, is_on_blacklist |-> FALSE,
     trace_id |-> DefaultPrioField, span_id |-> DefaultPrioField,
     x_request_id_0 |-> DefaultPrioField, x_request_id_1 |-> DefaultPrioField,
     client_ip |-> None, user_agent |-> None, referer |-> None,
     custom_result |-> None, custom_exception |-> None,
     captured_request_byte |-> 0, captured_response_byte |-> 0, attributes |-> <<>>]

\* HttpInfo::is_invalid_status_code / is_invalid / is_grpc
is_invalid_status_code(info) ==
    ~(info.status_code >= HTTP_STATUS_CODE_MIN /\ info.status_code <= HTTP_STATUS_CODE_MAX)
is_invalid(info) ==
    \/ info.msg_type = "Request" /\ info.method = "None"
    \/ info.msg_type = "Response" /\ is_invalid_status_code(info)
is_grpc(info) == info.proto = "Grpc"

\* ------------------------------------------------------------------------
\* hpack::Decoder (external crate).  The static table entries the parser
\* looks at; every other static index carries a header the parser ignores.
HpackStatic(i) ==
    CASE i = 1 -> [k |-> KEY_AUTHORITY, v |-> <<>>]
      [] i = 2 -> [k |-> KEY_METHOD, v |-> M_GET]
      [] i = 3 -> [k |-> KEY_METHOD, v |-> M_POST]
      [] i = 4 -> [k |-> KEY_PATH, v |-> <<47>>]
      [] i = 8 -> [k |-> KEY_STATUS, v |-> <<50, 48, 48>>]
      [] i = 13 -> [k |-> KEY_STATUS, v |-> <<52, 48, 52>>]
      [] i = 14 -> [k |-> KEY_STATUS, v |-> <<53, 48, 48>>]
      [] i = 28 -> [k |-> KEY_CONTENT_LENGTH, v |-> <<>>]
      [] i = 31 -> [k |-> KEY_CONTENT_TYPE, v |-> <<>>]
      [] i = 38 -> [k |-> KEY_HOST, v |-> <<>>]
      [] OTHER -> [k |-> <<120>>, v |-> <<>>]
HPACK_STATIC_LEN == 61

\* Table lookup: 1..61 static, 62.. the dynamic table, most recent first.
HpackLookup(table, i) ==
    IF i = 0 THEN None
    ELSE IF i <= HPACK_STATIC_LEN THEN Some(HpackStatic(i))
    ELSE IF i - HPACK_STATIC_LEN <= Len(table) THEN Some(table[i - HPACK_STATIC_LEN])
    ELSE None

\* A string literal at the head of s: [ok, str, n] with n the bytes consumed.
\* Huffman-coded and multi-byte-length strings are outside the modelled
\* inputs and decode as an error.
HpackString(s) ==
    IF s = <<>> \/ s[1] >= 127 \/ Len(s) < 1 + s[1]
    THEN [ok |-> FALSE, str |-> <<>>, n |-> 0]
    ELSE [ok |-> TRUE, str |-> Slice(s, 1, 1 + s[1]), n |-> 1 + s[1]]

\* One header field representation at the head of s:
\* [ok, hdr, n, insert]; indexed (1xxxxxxx), literal with incremental
\* indexing (01xxxxxx), literal without indexing / never indexed (000xxxxx).
\* A name index that fills its prefix continues in one more byte; longer
\* integers are outside the modelled inputs and decode as an error.
HpackField(table, s) ==
    LET b == s[1]
        bad == [ok |-> FALSE, hdr |-> [k |-> <<>>, v |-> <<>>], n |-> 0, insert |-> FALSE]
        \* pre: the bytes of the prefix integer
        literal(nameidx, insert, pre) ==
            LET nm == IF nameidx = 0 THEN HpackString(Drop(s, pre))
                      ELSE LET e == HpackLookup(table, nameidx) IN
                           [ok |-> IsSome(e), str |-> IF IsSome(e) THEN e[1].k ELSE <<>>, n |-> 0]
                vl == HpackString(Drop(s, pre + nm.n))
            IN IF nm.ok /\ vl.ok
               THEN [ok |-> TRUE, hdr |-> [k |-> nm.str, v |-> vl.str],
                     n |-> pre + nm.n + vl.n, insert |-> insert]
               ELSE bad
    IN IF b >= 128 THEN
           LET e == IF b = 255 THEN None ELSE HpackLookup(table, b - 128) IN
           IF IsSome(e) THEN [ok |-> TRUE, hdr |-> e[1], n |-> 1, insert |-> FALSE] ELSE bad
       ELSE IF b >= 64 THEN (IF b = 127 THEN bad ELSE literal(b - 64, TRUE, 1))
       ELSE IF b >= 32 THEN bad
       ELSE IF b % 16 = 15
       THEN (IF Len(s) >= 2 /\ s[2] < 128 THEN literal(15 + s[2], FALSE, 2) ELSE bad)
       ELSE literal(b % 16, FALSE, 1)

\* str::to_ascii_lowercase
ToLower(s) == [i \in 1..Len(s) |-> IF s[i] >= 65 /\ s[i] <= 90 THEN s[i] + 32 ELSE s[i]]
\* The position of the first byte b of s at or after i, -1 if there is none
RECURSIVE FindByte(_, _, _)
FindByte(s, b, i) ==
    IF i >= Len(s) THEN -1 ELSE IF s[i + 1] = b THEN i ELSE FindByte(s, b, i + 1)
\* str::split(sep): the pieces of s between occurrences of the byte b
RECURSIVE Split(_, _)
Split(s, b) ==
    LET i == FindByte(s, b, 0) IN
    IF i < 0 THEN <<s>> ELSE <<Take(s, i)>> \o Split(Drop(s, i + 1), b)

\* TraceType (its check and decoders are defined outside the parser): a
\* trace type is [kind, name]; TraceType::check compares the header name, the
\* TraceParent decoders take the second and third '-'-separated part of the
\* value ("00-trace-span-01"), every other kind takes the value as it is.
TraceType(type_kind, name) == [kind |-> type_kind, name |-> name]
TraceCheck(trace, key) == trace.name = key
DashPart(val, n) ==
    LET parts == Split(val, 45) IN IF Len(parts) >= n THEN Some(parts[n]) ELSE None
decode_trace_id(trace, val) == IF trace.kind = "TraceParent" THEN DashPart(val, 2) ELSE Some(val)
decode_span_id(trace, val) == IF trace.kind = "TraceParent" THEN DashPart(val, 3) ELSE Some(val)
\* L7LogDynamicConfig::is_trace_id / is_span_id
is_trace_id(cfg, key) == \E i \in 1..Len(cfg.trace_types) : TraceCheck(cfg.trace_types[i], key)
is_span_id(cfg, key) == \E i \in 1..Len(cfg.span_types) : TraceCheck(cfg.span_types[i], key)

\* The trace-type loop without its priority test: every matching position
\* that decodes stores its value.
RECURSIVE TraceLoopAnyOrder(_, _, _, _, _)
TraceLoopAnyOrder(types, field, key, val, i) ==
    IF i >= Len(types) THEN field
    ELSE IF ~TraceCheck(types[i + 1], key) THEN TraceLoopAnyOrder(types, field, key, val, i + 1)
    ELSE LET id == decode_trace_id(types[i + 1], val) IN
         TraceLoopAnyOrder(types, IF IsSome(id) THEN PrioField(i + BASE_FIELD_PRIORITY, id[1])
                                  ELSE field, key, val, i + 1)
\* The loop over config.trace_types of on_header (src http.rs 1973-1984),
\* from list position i (0-based) on; prio = i as u8 + BASE_FIELD_PRIORITY,
\* the lists are shorter than the u8 range.
RECURSIVE TraceLoop(_, _, _, _, _)
TraceLoop(types, field, key, val, i) ==
    IF i >= Len(types) THEN field
    ELSE LET prio == i + BASE_FIELD_PRIORITY IN
         IF field.prio <= prio THEN field
         ELSE IF ~TraceCheck(types[i + 1], key) THEN TraceLoop(types, field, key, val, i + 1)
         ELSE LET id == decode_trace_id(types[i + 1], val) IN
              TraceLoop(types, IF IsSome(id) THEN PrioField(prio, id[1]) ELSE field,
                        key, val, i + 1)

\* The loop over config.span_types (src http.rs 1986-1997)
RECURSIVE SpanLoop(_, _, _, _, _)
SpanLoop(types, field, key, val, i) ==
    IF i >= Len(types) THEN field
    ELSE LET prio == i + BASE_FIELD_PRIORITY IN
         IF field.prio <= prio THEN field
         ELSE IF ~TraceCheck(types[i + 1], key) THEN SpanLoop(types, field, key, val, i + 1)
         ELSE LET id == decode_span_id(types[i + 1], val) IN
              SpanLoop(types, IF IsSome(id) THEN PrioField(prio, id[1]) ELSE field,
                       key, val, i + 1)

\* The loop over config.x_request_id (src http.rs 2004-2014)
RECURSIVE XRequestIdLoop(_, _, _, _, _)
XRequestIdLoop(names, x_req_id, key, val, i) ==
    IF i >= Len(names) THEN x_req_id
    ELSE LET prio == i + BASE_FIELD_PRIORITY IN
         IF x_req_id.prio <= prio THEN x_req_id
         ELSE IF names[i + 1] = key THEN PrioField(prio, val)
         ELSE XRequestIdLoop(names, x_req_id, key, val, i + 1)

\* The loop over config.proxy_client (src http.rs 2017-2028); client_ip is
\* an Option, None never stops the loop.
RECURSIVE ProxyClientLoop(_, _, _, _, _)
ProxyClientLoop(names, client_ip, key, val, i) ==
    IF i >= Len(names) THEN client_ip
    ELSE LET prio == i + BASE_FIELD_PRIORITY IN
         IF IsSome(client_ip) /\ client_ip[1].prio <= prio THEN client_ip
         ELSE IF names[i + 1] = key THEN Some(PrioField(prio, val))
         ELSE ProxyClientLoop(names, client_ip, key, val, i + 1)

\* process_attributes of on_header (src http.rs 2030-2053): one attribute per
\* configured extra field whose name equals the key, ASCII case ignored.
KeyVal(key, val) == [key |-> key, val |-> val]
process_attributes(cfg, info, key, val) ==
    LET extend(fields) ==
            [i \in 1..Len(SelectSeq(fields, LAMBDA f : ToLower(f) = ToLower(key))) |->
                KeyVal([j \in 1..Len(key) |-> IF key[j] = 45 THEN 95 ELSE key[j]], val)]
    IN [info EXCEPT !.attributes =
           @ \o CASE info.proto = "Http1" -> extend(cfg.extra_log_fields.http)
                  [] info.proto \in {"Http2", "Grpc"} -> extend(cfg.extra_log_fields.http2)
                  [] OTHER -> <<>>]

\* HttpLog::on_header (src http.rs 1921-2058).  The result is
\* [info, proto, ok]; ok = FALSE is the Err of Method::try_from.
on_header(cfg, key, val, dir, info, proto) ==
    IF ~IsUtf8(key) THEN [info |-> info, proto |-> proto, ok |-> TRUE]
    ELSE
    LET tagged(h) ==
            IF ~h.ok \/ ~IsAscii(key) \/ ~IsUtf8(val) THEN h
            ELSE [h EXCEPT !.info = process_attributes(cfg,
                     [@ EXCEPT
                        !.trace_id = IF is_trace_id(cfg, key)
                                     THEN TraceLoop(cfg.trace_types, @, key, val, 0) ELSE @,
                        !.span_id = IF is_span_id(cfg, key)
                                    THEN SpanLoop(cfg.span_types, @, key, val, 0) ELSE @,
                        !.x_request_id_0 = IF dir = "c2s"
                                           THEN XRequestIdLoop(cfg.x_request_id, @, key, val, 0)
                                           ELSE @,
                        !.x_request_id_1 = IF dir = "c2s" THEN @
                                           ELSE XRequestIdLoop(cfg.x_request_id, @, key, val, 0),
                        !.client_ip = IF dir = "c2s"
                                      THEN ProxyClientLoop(cfg.proxy_client, @, key, val, 0)
                                      ELSE @],
                     key, val)]
    IN tagged(
        IF key = KEY_METHOD THEN
                LET m == MethodTryFrom(Lossy(val)) IN
                [info |-> [info EXCEPT !.msg_type = "Request",
                                       !.method = IF IsSome(m) THEN m[1] ELSE @],
                 proto |-> proto, ok |-> IsSome(m)]
            ELSE IF key = KEY_STATUS THEN
                [info |-> [info EXCEPT !.msg_type = "Response",
                                       !.status_code = UnwrapOr(ParseU16(val), 0)],
                 proto |-> proto, ok |-> TRUE]
            ELSE IF key = KEY_HOST \/ key = KEY_AUTHORITY THEN
                [info |-> [info EXCEPT !.host = Lossy(val)], proto |-> proto, ok |-> TRUE]
            ELSE IF key = KEY_PATH THEN
                [info |-> [info EXCEPT !.path = Lossy(val)], proto |-> proto, ok |-> TRUE]
            ELSE IF key = KEY_GRPC_STATUS /\ cfg.grpc_streaming_data_enabled THEN
                [info |-> [info EXCEPT !.msg_type = "Response",
                                       !.grpc_status_code = Some(UnwrapOr(ParseU16(val), 0))],
                 proto |-> proto, ok |-> TRUE]
            ELSE IF key = KEY_CONTENT_TYPE /\ StartsWith(val, GRPC_CONTENT_TYPE) THEN
                [info |-> [info EXCEPT !.proto = "Grpc"], proto |-> "Grpc", ok |-> TRUE]
            ELSE [info |-> info, proto |-> proto, ok |-> TRUE])

\* Decoder::decode_with_cb with the closure of check_http_v2 (src 1603-1625):
\* the callback runs for every header decoded before a failure.
\* d = [table, info, proto, cl, ok]
RECURSIVE decode_with_cb(_, _, _, _)
decode_with_cb(cfg, dir, block, d) ==
    LET header(f, h) ==
            decode_with_cb(cfg, dir, Drop(block, f.n),
                [table |-> IF f.insert THEN <<f.hdr>> \o d.table ELSE d.table,
                 info |-> h.info, proto |-> h.proto,
                 cl |-> IF f.hdr.k = KEY_CONTENT_LENGTH
                        THEN Some(UnwrapOr(ParseU32(f.hdr.v), 0)) ELSE d.cl,
                 ok |-> TRUE])
        field(f) ==
            IF ~f.ok THEN [d EXCEPT !.ok = FALSE]
            ELSE header(f, on_header(cfg, f.hdr.k, f.hdr.v, dir, d.info, d.proto))
    IN IF block = <<>> THEN d ELSE field(HpackField(d.table, block))

\* ------------------------------------------------------------------------
\* Httpv2Headers::validate_flags: the flags each frame type allows
ValidFlags(t) ==
    CASE t = 0 -> 9 [] t = 1 -> 45 [] t = 2 -> 0 [] t = 3 -> 0 [] t = 4 -> 1
      [] t = 5 -> 12 [] t = 6 -> 1 [] t = 7 -> 0 [] t = 8 -> 0 [] t = 9 -> 4
      [] OTHER -> -1
validate_flags(t, flags) ==
    ValidFlags(t) >= 0 /\ BitAnd(255 - ValidFlags(t), flags) = 0

\* Httpv2Headers::parse_headers_frame: [ok, hdr, panic]; reads payload[3],
\* payload[4], payload[5], payload[0..4] and payload[5..9].
parse_headers_frame(payload) ==
    LET frame_type == At(payload, 3)
        flags == At(payload, 4)
        zero == [frame_length |-> 0, frame_type |-> 0, flags |-> 0, stream_id |-> 0]
    IN IF OobAt(payload, 3) THEN [ok |-> FALSE, hdr |-> zero, panic |-> TRUE]
       ELSE IF frame_type > HTTPV2_FRAME_TYPE_MAX THEN [ok |-> FALSE, hdr |-> zero, panic |-> FALSE]
       ELSE IF OobAt(payload, 4) THEN [ok |-> FALSE, hdr |-> zero, panic |-> TRUE]
       ELSE IF ~validate_flags(frame_type, flags) THEN [ok |-> FALSE, hdr |-> zero, panic |-> FALSE]
       ELSE IF OobAt(payload, 5) THEN [ok |-> FALSE, hdr |-> zero, panic |-> TRUE]
       ELSE IF At(payload, 5) >= 128 THEN [ok |-> FALSE, hdr |-> zero, panic |-> FALSE]
       ELSE [ok |-> TRUE,
             hdr |-> [frame_length |-> read_u24_be(payload),
                      frame_type |-> frame_type, flags |-> flags,
                      stream_id |-> read_u32_be(Drop(payload, 5))],
             panic |-> Len(payload) < 9]

is_stream_end(hdr) == BitAnd(hdr.flags, FLAGS_STREAM_END) = FLAGS_STREAM_END

\* HttpLog::has_magic
has_magic(payload) ==
    Len(payload) >= HTTPV2_MAGIC_LENGTH /\ StartsWith(payload, HTTPV2_MAGIC_PREFIX)

\* HttpLog::modify_http2_and_grpc: [ok, info]
modify_http2_and_grpc(grpc_streaming_data_enabled, dir, content_length, stream_id, info) ==
    LET i0 == [info EXCEPT !.version = "V2",
                           !.stream_id = IF IsNone(@) THEN Some(stream_id) ELSE @]
        setlen(i) == IF IsSome(content_length)
                     THEN (IF dir = "c2s" THEN [i EXCEPT !.req_content_length = content_length]
                           ELSE [i EXCEPT !.resp_content_length = content_length])
                     ELSE i
    IN IF i0.proto = "Grpc" THEN
           IF (dir = "c2s" /\ i0.method = "_RequestData")
              \/ (dir = "s2c" /\ i0.method = "_ResponseData") THEN
               IF ~grpc_streaming_data_enabled THEN [ok |-> FALSE, info |-> i0]
               ELSE [ok |-> TRUE, info |-> setlen([i0 EXCEPT !.msg_type = "Session"])]
           ELSE IF dir = "s2c" /\ i0.method = "_ResponseHeader" THEN
               IF IsNone(i0.grpc_status_code) THEN
                   IF i0.status_code = 0 THEN [ok |-> FALSE, info |-> i0]
                   ELSE [ok |-> TRUE,
                         info |-> setlen([i0 EXCEPT !.msg_type =
                             IF ~grpc_streaming_data_enabled THEN "Response" ELSE "Session"])]
               ELSE [ok |-> TRUE, info |-> setlen(i0)]
           ELSE [ok |-> TRUE, info |-> setlen(i0)]
       ELSE [ok |-> TRUE, info |-> setlen(i0)]

\* ------------------------------------------------------------------------
\* HttpLog::check_http_v2.  The locals of the function and the fields of
\* self it touches form the walker state w:
\*   fp frame_payload, hdr httpv2_header, headers_offset, stream_id, offset,
\*   content_length, header_frame_parsed, is_httpv2, info, proto (self.proto),
\*   dec (the decoder of the direction, an Option of its dynamic table),
\*   ctl in {"continue", "break", "retOk", "retErr"}, panic.
V2Init(payload, info, proto, dec) ==
    [fp |-> payload,
     hdr |-> [frame_length |-> 0, frame_type |-> 0, flags |-> 0, stream_id |-> 0],
     headers_offset |-> 0, stream_id |-> 0, offset |-> 0, content_length |-> None,
     header_frame_parsed |-> FALSE, is_httpv2 |-> FALSE, info |-> info, proto |-> proto,
     dec |-> dec, ctl |-> "continue", panic |-> FALSE]

\* the end of the loop body (src 1682-1689)
V2Advance(w) ==
    LET w1 == IF w.hdr.stream_id > 0
              THEN [w EXCEPT !.info.stream_id = Some(w.hdr.stream_id)] ELSE w
    IN IF w1.hdr.frame_length >= Len(w1.fp) THEN [w1 EXCEPT !.ctl = "break"]
       ELSE [w1 EXCEPT !.fp = Drop(w1.fp, w1.hdr.frame_length),
                       !.headers_offset = @ + w1.hdr.frame_length + HTTPV2_FRAME_HEADER_LENGTH]

\* the HEADERS branch (src 1576-1649); w.fp is past the frame header
V2Headers(cfg, dir, w) ==
    LET padded == BitAnd(w.hdr.flags, FLAG_HEADERS_PADDED) # 0
        pad == At(w.fp, 0)
        flen == IF padded THEN w.hdr.frame_length - pad ELSE w.hdr.frame_length
        l_offset == (IF padded THEN 1 ELSE 0)
                    + (IF BitAnd(w.hdr.flags, FLAG_HEADERS_PRIORITY) # 0 THEN 5 ELSE 0)
        \* after header_frame_parsed = true (src 1636-1649)
        parsed(w2, info) ==
            LET i1 == IF w2.proto = "Grpc"
                      THEN [info EXCEPT !.method = MethodFromFrameType(w.hdr.frame_type, dir)]
                      ELSE info
                hoff == IF IsNone(i1.headers_offset) \/ IsSome(i1.grpc_status_code)
                        THEN Some(w.headers_offset) ELSE i1.headers_offset
            IN IF IsSome(w2.content_length)
               THEN [w2 EXCEPT !.header_frame_parsed = TRUE, !.info = i1,
                               !.info.headers_offset = hoff, !.is_httpv2 = TRUE,
                               !.ctl = "break"]
               ELSE V2Advance([w2 EXCEPT !.header_frame_parsed = TRUE, !.info = i1,
                                         !.info.headers_offset = hoff])
        \* after decode_with_cb (src 1626-1634)
        decoded(d) ==
            IF ~d.ok
            THEN [w EXCEPT !.hdr.frame_length = flen, !.dec = Some(d.table), !.info = d.info,
                           !.proto = d.proto, !.content_length = d.cl,
                           !.panic = OobSlice(w.fp, l_offset, flen), !.ctl = "retErr"]
            ELSE parsed([w EXCEPT !.hdr.frame_length = flen, !.dec = Some(d.table),
                                  !.info = d.info, !.proto = d.proto, !.content_length = d.cl,
                                  !.panic = OobSlice(w.fp, l_offset, flen)], d.info)
    IN IF padded /\ OobAt(w.fp, 0) THEN [w EXCEPT !.panic = TRUE, !.ctl = "break"]
       ELSE IF padded /\ w.hdr.frame_length <= pad THEN [w EXCEPT !.ctl = "break"]
       ELSE IF l_offset >= flen \/ flen > Len(w.fp)
       THEN [w EXCEPT !.hdr.frame_length = flen, !.ctl = "break"]
       ELSE IF IsNone(w.dec)
       THEN [w EXCEPT !.hdr.frame_length = flen, !.panic = TRUE, !.ctl = "break"]
       ELSE decoded(decode_with_cb(cfg, dir, Slice(w.fp, l_offset, flen),
                        [table |-> w.dec[1], info |-> w.info, proto |-> w.proto,
                         cl |-> w.content_length, ok |-> TRUE]))

\* the DATA branch (src 1650-1680)
V2Data(dir, w) ==
    LET padded == BitAnd(w.hdr.flags, FLAG_HEADERS_PADDED) # 0
        pad == At(w.fp, 0)
        cl == IF padded /\ w.hdr.frame_length > pad
              THEN w.hdr.frame_length - pad ELSE w.hdr.frame_length
        w1 == [w EXCEPT !.content_length = Some(cl), !.is_httpv2 = TRUE,
                        !.info.method = IF @ = "None"
                                        THEN MethodFromFrameType(w.hdr.frame_type, dir) ELSE @,
                        !.panic = padded /\ OobAt(w.fp, 0)]
    IN IF is_stream_end(w.hdr) THEN [w1 EXCEPT !.ctl = "break"]
       ELSE IF w.hdr.frame_length >= Len(w.fp) THEN [w1 EXCEPT !.ctl = "break"]
       ELSE V2Advance([w1 EXCEPT !.header_frame_parsed = FALSE])

\* one iteration of the while loop (src 1536-1690)
V2Step(cfg, dir, w) ==
    LET \* the frame after its header is parsed (src 1552-1681)
        frame(hdr, flen) ==
            IF hdr.stream_id = 0 THEN
                IF flen >= Len(w.fp) THEN [w EXCEPT !.hdr = hdr, !.offset = @ + flen,
                                                    !.ctl = "break"]
                ELSE [w EXCEPT !.hdr = hdr, !.offset = @ + flen, !.fp = Drop(w.fp, flen),
                               !.headers_offset = @ + flen]
            ELSE IF w.stream_id # 0 /\ w.stream_id # hdr.stream_id
            THEN [w EXCEPT !.hdr = hdr, !.offset = @ + flen, !.ctl = "retOk"]
            ELSE IF ~w.header_frame_parsed /\ hdr.frame_type = HTTPV2_FRAME_HEADERS_TYPE
            THEN V2Headers(cfg, dir,
                     [w EXCEPT !.hdr = hdr, !.offset = @ + flen,
                               !.stream_id = IF @ = 0 THEN hdr.stream_id ELSE @,
                               !.fp = Drop(w.fp, HTTPV2_FRAME_HEADER_LENGTH)])
            ELSE IF (w.header_frame_parsed \/ w.proto = "Grpc")
                    /\ hdr.frame_type = HTTPV2_FRAME_DATA_TYPE
            THEN V2Data(dir,
                     [w EXCEPT !.hdr = hdr, !.offset = @ + flen,
                               !.stream_id = IF @ = 0 THEN hdr.stream_id ELSE @,
                               !.fp = Drop(w.fp, HTTPV2_FRAME_HEADER_LENGTH)])
            ELSE V2Advance(
                     [w EXCEPT !.hdr = hdr, !.offset = @ + flen,
                               !.stream_id = IF @ = 0 THEN hdr.stream_id ELSE @,
                               !.fp = Drop(w.fp, HTTPV2_FRAME_HEADER_LENGTH)])
        header(ph) ==
            IF ph.panic THEN [w EXCEPT !.panic = TRUE, !.ctl = "break"]
            ELSE IF ~ph.ok THEN
                IF w.header_frame_parsed
                THEN [w EXCEPT !.info.stream_id = Some(w.hdr.stream_id), !.is_httpv2 = TRUE,
                               !.ctl = "break"]
                ELSE [w EXCEPT !.ctl = "break"]
            ELSE frame(ph.hdr, ph.hdr.frame_length + HTTPV2_FRAME_HEADER_LENGTH)
    IN IF has_magic(w.fp) THEN
           [w EXCEPT !.fp = Drop(w.fp, HTTPV2_MAGIC_LENGTH),
                     !.headers_offset = @ + HTTPV2_MAGIC_LENGTH,
                     !.offset = @ + HTTPV2_MAGIC_LENGTH]
       ELSE header(parse_headers_frame(w.fp))

\* the loop without its length condition
RECURSIVE V2LoopNoLength(_, _, _)
V2LoopNoLength(cfg, dir, w) ==
    IF w.ctl # "continue" \/ w.panic THEN w
    ELSE V2LoopNoLength(cfg, dir, V2Step(cfg, dir, w))

\* while frame_payload.len() > HTTPV2_FRAME_HEADER_LENGTH { ... } (src 1536-1690)
RECURSIVE V2Loop(_, _, _)
V2Loop(cfg, dir, w) ==
    IF w.ctl # "continue" \/ w.panic \/ Len(w.fp) <= HTTPV2_FRAME_HEADER_LENGTH THEN w
    ELSE V2Loop(cfg, dir, V2Step(cfg, dir, w))

\* check_http_v2: [ok, n, info, proto, dec, panic]
check_http_v2(cfg, dir, payload, info, proto, dec) ==
    LET res(w, ok, n, i) == [ok |-> ok, n |-> n, info |-> i, proto |-> w.proto,
                             dec |-> w.dec, panic |-> w.panic]
        modified(w, m) == res(w, m.ok, IF m.ok THEN w.offset ELSE 0, m.info)
        \* after the loop (src 1691-1714)
        finish(w) ==
            IF w.panic THEN res(w, FALSE, 0, w.info)
            ELSE IF w.ctl = "retOk" THEN res(w, TRUE, w.offset, w.info)
            ELSE IF w.ctl = "retErr" THEN res(w, FALSE, 0, w.info)
            ELSE IF w.is_httpv2 \/ w.header_frame_parsed THEN
                modified(w, modify_http2_and_grpc(cfg.grpc_streaming_data_enabled, dir,
                    IF w.header_frame_parsed /\ ~w.is_httpv2 /\ IsNone(w.content_length)
                    THEN Some(0) ELSE w.content_length,
                    w.hdr.stream_id,
                    IF w.info.msg_type = "Other"
                    THEN [w.info EXCEPT !.msg_type = MsgTypeFrom(dir)] ELSE w.info))
            ELSE res(w, FALSE, 0, w.info)
    IN finish(V2Loop(cfg, dir, V2Init(payload, info, proto, dec)))

\* ------------------------------------------------------------------------
\* HTTP/1
HTTP_METHODS ==
    <<M_GET, M_POST, M_PUT, M_DELETE, M_OPTIONS, M_HEAD, M_TRACE, M_CONNECT, M_PATCH,
      M_LINK, M_UNLINK, M_COPY, M_MOVE, M_WRAPPED, M_EXTENSION_METHOD>>

\* has_prefix: s starts with prefix and a space
has_prefix(s, prefix) ==
    Len(s) >= Len(prefix) + 1 /\ StartsWith(s, prefix) /\ s[Len(prefix) + 1] = 32

is_http_v1_payload(buf) ==
    StartsWith(buf, RESPONSE_PREFIX)
    \/ \E i \in 1..Len(HTTP_METHODS) : has_prefix(buf, HTTP_METHODS[i])

\* 0-based position of the first CR LF of buf, -1 when there is none
RECURSIVE FindCrlf(_, _)
FindCrlf(buf, i) ==
    IF i + 1 >= Len(buf) THEN -1
    ELSE IF buf[i + 1] = 13 /\ buf[i + 2] = 10 THEN i
    ELSE FindCrlf(buf, i + 1)

\* V1HeaderIterator::next: [line (Option), rest]
V1Next(buf) ==
    IF Len(buf) < 2 THEN [line |-> None, rest |-> buf]
    ELSE LET end == FindCrlf(buf, 0) IN
         IF end > 0 THEN
             IF IsUtf8(Take(buf, end))
             THEN [line |-> Some(Take(buf, end)), rest |-> Drop(buf, end + 2)]
             ELSE [line |-> None, rest |-> buf]
         ELSE IF end = 0 THEN [line |-> None, rest |-> Drop(buf, 2)]
         ELSE [line |-> None, rest |-> buf]

IsAsciiWs(b) == b = 32 \/ b = 9 \/ b = 10 \/ b = 12 \/ b = 13
\* 0-based position of the first / last byte of s that satisfies the test,
\* -1 when there is none
RECURSIVE FindWs(_, _)
FindWs(s, i) ==
    IF i >= Len(s) THEN -1 ELSE IF IsAsciiWs(s[i + 1]) THEN i ELSE FindWs(s, i + 1)
RECURSIVE RFindByte(_, _, _)
RFindByte(s, b, i) ==
    IF i < 0 THEN -1 ELSE IF s[i + 1] = b THEN i ELSE RFindByte(s, b, i - 1)

\* is_http_req_line
is_http_req_line(line) ==
    /\ Len(line) >= 14
    /\ \E i \in 1..Len(HTTP_METHODS) : has_prefix(line, HTTP_METHODS[i])
    /\ LET sp == RFindByte(line, 32, Len(line) - 1) IN
       /\ sp >= 0
       /\ Drop(line, sp + 1) \in {HTTP_V0_9_VERSION, HTTP_V1_0_VERSION, HTTP_V1_1_VERSION}

\* HttpLog::http1_check_protocol
http1_check_protocol(payload) ==
    LET f == V1Next(payload) IN IsSome(f.line) /\ is_http_req_line(f.line[1])

\* get_http_request_version
get_http_request_version(v) ==
    IF v = HTTP_V1_0_VERSION THEN Some("V1_0")
    ELSE IF v = HTTP_V1_1_VERSION THEN Some("V1_1") ELSE None

\* get_http_request_info: splitn(3, ascii whitespace); [ok, method, path, version]
get_http_request_info(line) ==
    LET bad == [ok |-> FALSE, method |-> "None", path |-> <<>>, version |-> <<>>]
        a == FindWs(line, 0)
        r1 == Drop(line, a + 1)
        b == FindWs(r1, 0)
        m == MethodTryFrom(Take(line, a))
    IN IF a < 0 \/ b < 0 THEN bad
       ELSE IF IsNone(m) THEN bad
       ELSE [ok |-> TRUE, method |-> m[1], path |-> Take(r1, b), version |-> Drop(r1, b + 1)]

\* get_http_resp_info without the test of the status code range
get_http_resp_info_any_code(line) ==
    LET bad == [ok |-> FALSE, version |-> "Unknown", status_code |-> 0]
        v == get_http_request_version(Take(line, 8))
        code == ParseU16(Slice(line, 9, 12))
    IN IF Len(line) < HTTP_RESP_MIN_LEN \/ ~IsAscii(line) THEN bad
       ELSE IF IsNone(v) \/ IsNone(code) THEN bad
       ELSE [ok |-> TRUE, version |-> v[1], status_code |-> code[1]]

\* get_http_resp_info: [ok, version, status_code]
\* (u16::from_str accepts a leading '+', so "+20" parses as 20)
get_http_resp_info(line) ==
    LET bad == [ok |-> FALSE, version |-> "Unknown", status_code |-> 0]
        v == get_http_request_version(Take(line, 8))
        code == ParseU16(Slice(line, 9, 12))
    IN IF Len(line) < HTTP_RESP_MIN_LEN \/ ~IsAscii(line) THEN bad
       ELSE IF IsNone(v) THEN bad
       ELSE IF IsNone(code) THEN bad
       ELSE IF code[1] < HTTP_STATUS_CODE_MIN \/ code[1] > HTTP_STATUS_CODE_MAX THEN bad
       ELSE [ok |-> TRUE, version |-> v[1], status_code |-> code[1]]

\* str::trim, str::trim_start (ASCII white space:
\* the inputs of the model hold no other Unicode white space)
IsTrimWs(b) == b = 32 \/ (b >= 9 /\ b <= 13)
RECURSIVE TrimStart(_)
TrimStart(s) == IF s # <<>> /\ IsTrimWs(s[1]) THEN TrimStart(Tail(s)) ELSE s
RECURSIVE TrimEnd(_)
TrimEnd(s) == IF s # <<>> /\ IsTrimWs(s[Len(s)]) THEN TrimEnd(Take(s, Len(s) - 1)) ELSE s
Trim(s) == TrimEnd(TrimStart(s))

\* the header loop of parse_http_v1 (src 1373-1410): st = [info, proto, cl, ok]
RECURSIVE V1HeaderLoop(_, _, _, _)
V1HeaderLoop(cfg, dir, buf, st) ==
    LET nx == V1Next(buf) IN
    IF IsNone(nx.line) THEN st
    ELSE LET body_line == nx.line[1]
             col_index == FindByte(body_line, 58, 0)
         IN IF col_index < 0 \/ col_index + 1 >= Len(body_line)
            THEN V1HeaderLoop(cfg, dir, nx.rest, st)
            ELSE LET lower_key == ToLower(Take(body_line, col_index))
                     value == Drop(body_line, col_index + 1)
                     h == on_header(cfg, lower_key, Trim(value), dir, st.info, st.proto)
                     cl == IF lower_key = KEY_CONTENT_LENGTH
                           THEN Some(UnwrapOr(ParseU32(TrimStart(value)), 0)) ELSE st.cl
                 IN IF ~h.ok THEN [st EXCEPT !.info = h.info, !.proto = h.proto, !.ok = FALSE]
                    ELSE V1HeaderLoop(cfg, dir, nx.rest,
                             [info |-> h.info, proto |-> h.proto, cl |-> cl, ok |-> TRUE])

\* HttpLog::parse_http_v1: [ok, info, proto]
parse_http_v1(cfg, dir, payload, info, proto) ==
    LET bad == [ok |-> FALSE, info |-> info, proto |-> proto]
        first == V1Next(payload)
    IN IF ~is_http_v1_payload(payload) THEN bad
       ELSE IF IsNone(first.line) THEN bad
       ELSE
         LET first_line == first.line[1]
             rs == get_http_resp_info(first_line)
             rq == get_http_request_info(first_line)
             ver == get_http_request_version(rq.version)
             i1 == IF dir = "s2c"
                   THEN [info EXCEPT !.version = rs.version, !.status_code = rs.status_code,
                                     !.msg_type = "Response"]
                   ELSE [info EXCEPT !.method = rq.method, !.path = rq.path,
                                     !.version = UnwrapOr(ver, "Unknown"),
                                     !.msg_type = "Request"]
             st == V1HeaderLoop(cfg, dir, first.rest,
                       [info |-> i1, proto |-> proto, cl |-> None, ok |-> TRUE])
         IN IF dir = "s2c" /\ (~rs.ok \/ rs.status_code \in {100, 102, 103}) THEN bad
            ELSE IF dir = "c2s" /\ (~rq.ok \/ IsNone(ver)) THEN bad
            ELSE IF ~st.ok THEN [ok |-> FALSE, info |-> st.info, proto |-> st.proto]
            ELSE [ok |-> TRUE, proto |-> st.proto,
                  info |-> IF dir = "s2c" THEN [st.info EXCEPT !.resp_content_length = st.cl]
                           ELSE [st.info EXCEPT !.req_content_length = st.cl]]

\* check_http2_go_uprobe accepting a payload longer than its header declares
check_http2_go_uprobe_lenient(cfg, dir, ebpf_type, ep, payload, info, proto) ==
    LET res(ok, i, pr, pn) == [ok |-> ok, n |-> IF ok THEN Len(payload) ELSE 0,
                               info |-> i, proto |-> pr, panic |-> pn]
    IN IF Len(payload) < HTTPV2_CUSTOM_DATA_MIN_LENGTH THEN res(FALSE, info, proto, FALSE)
       ELSE IF IsNone(ep) THEN res(FALSE, info, proto, FALSE)
       ELSE
         LET stream_id == read_u32_le(Slice(payload, 4, 8))
             key_len == read_u32_le(Slice(payload, 8, 12))
             val_len == read_u32_le(Slice(payload, 12, 16))
             i0 == [info EXCEPT !.is_req_end = ep[1].is_req_end,
                                !.is_resp_end = ep[1].is_resp_end]
             val_offset == HTTPV2_CUSTOM_DATA_MIN_LENGTH + key_len
             key == Slice(payload, HTTPV2_CUSTOM_DATA_MIN_LENGTH, val_offset)
             val == Slice(payload, val_offset, val_offset + val_len)
             i1 == [i0 EXCEPT !.raw_data_type = "GoHttp2Uprobe", !.msg_type = MsgTypeFrom(dir)]
             h == on_header(cfg, key, val, dir, i1, proto)
             content_length == IF key = KEY_CONTENT_LENGTH
                               THEN Some(UnwrapOr(ParseU32(val), 0)) ELSE None
         IN IF OobSlice(payload, 12, 16) THEN res(FALSE, i0, proto, TRUE)
            ELSE IF key_len + val_len + HTTPV2_CUSTOM_DATA_MIN_LENGTH > Len(payload)
            THEN res(FALSE, i0, proto, FALSE)
            ELSE IF OobSlice(payload, val_offset, val_offset + val_len)
            THEN res(FALSE, i1, proto, TRUE)
            ELSE IF ~h.ok THEN res(FALSE, h.info, h.proto, FALSE)
            ELSE IF h.proto = "Grpc" THEN
                LET i2 == [h.info EXCEPT !.method = MethodFromEbpfType(ebpf_type, dir)]
                    m == modify_http2_and_grpc(cfg.grpc_streaming_data_enabled, dir,
                                               content_length, stream_id, i2)
                IN res(m.ok /\ ~is_invalid(m.info), m.info, h.proto, FALSE)
            ELSE res(TRUE, [h.info EXCEPT !.version = "V2", !.stream_id = Some(stream_id)],
                     h.proto, FALSE)

\* ------------------------------------------------------------------------
\* HttpLog::check_http2_go_uprobe: [ok, n, info, proto, panic];
\* ep is param.ebpf_param, None or Some([is_req_end, is_resp_end])
check_http2_go_uprobe(cfg, dir, ebpf_type, ep, payload, info, proto) ==
    LET res(ok, i, pr, pn) == [ok |-> ok, n |-> IF ok THEN Len(payload) ELSE 0,
                               info |-> i, proto |-> pr, panic |-> pn]
    IN IF Len(payload) < HTTPV2_CUSTOM_DATA_MIN_LENGTH THEN res(FALSE, info, proto, FALSE)
       ELSE IF IsNone(ep) THEN res(FALSE, info, proto, FALSE)
       ELSE
         LET stream_id == read_u32_le(Slice(payload, 4, 8))
             key_len == read_u32_le(Slice(payload, 8, 12))
             val_len == read_u32_le(Slice(payload, 12, 16))
             i0 == [info EXCEPT !.is_req_end = ep[1].is_req_end,
                                !.is_resp_end = ep[1].is_resp_end]
             val_offset == HTTPV2_CUSTOM_DATA_MIN_LENGTH + key_len
             key == Slice(payload, HTTPV2_CUSTOM_DATA_MIN_LENGTH, val_offset)
             val == Slice(payload, val_offset, val_offset + val_len)
             i1 == [i0 EXCEPT !.raw_data_type = "GoHttp2Uprobe", !.msg_type = MsgTypeFrom(dir)]
             h == on_header(cfg, key, val, dir, i1, proto)
             content_length == IF key = KEY_CONTENT_LENGTH
                               THEN Some(UnwrapOr(ParseU32(val), 0)) ELSE None
         IN IF OobSlice(payload, 12, 16) THEN res(FALSE, i0, proto, TRUE)
            ELSE IF key_len + val_len + HTTPV2_CUSTOM_DATA_MIN_LENGTH # Len(payload)
            THEN res(FALSE, i0, proto, FALSE)
            ELSE IF OobSlice(payload, val_offset, val_offset + val_len)
            THEN res(FALSE, i1, proto, TRUE)
            ELSE IF ~h.ok THEN res(FALSE, h.info, h.proto, FALSE)
            ELSE IF h.proto = "Grpc" THEN
                LET i2 == [h.info EXCEPT !.method = MethodFromEbpfType(ebpf_type, dir)]
                    m == modify_http2_and_grpc(cfg.grpc_streaming_data_enabled, dir,
                                               content_length, stream_id, i2)
                IN res(m.ok /\ ~is_invalid(m.info), m.info, h.proto, FALSE)
            ELSE res(TRUE, [h.info EXCEPT !.version = "V2", !.stream_id = Some(stream_id)],
                     h.proto, FALSE)

\* ------------------------------------------------------------------------
\* [&str]::join("/")
RECURSIVE Join(_)
Join(parts) ==
    IF parts = <<>> THEN <<>>
    ELSE IF Len(parts) = 1 THEN parts[1]
    ELSE parts[1] \o <<47>> \o Join(Tail(parts))

\* the loop of handle_endpoint (src 2324-2333): the value of `end` after it
RECURSIVE EndpointEnd(_, _, _, _, _)
EndpointEnd(segs, keep_segments, i, k, end) ==
    IF i >= Len(segs) \/ k >= keep_segments THEN end
    ELSE IF segs[i + 1] = <<>> \/ segs[i + 1] = <<46>>
    THEN EndpointEnd(segs, keep_segments, i + 1, k, end)
    ELSE EndpointEnd(segs, keep_segments, i + 1, k + 1, i + 1)

\* handle_endpoint, every segment counted
handle_endpoint_counts_all(keep_segments, path) ==
    IF keep_segments <= 0 THEN <<>>
    ELSE LET output == Split(path, 63)[1]
             cleaned_output == Split(output, 47)
             start == IF cleaned_output[1] = <<>> THEN 1 ELSE 0
             end == IF start + keep_segments < Len(cleaned_output)
                    THEN start + keep_segments ELSE Len(cleaned_output)
         IN <<47>> \o Join(SubSeq(cleaned_output, start + 1, end))

\* handle_endpoint; keep_segments is what http_endpoint_trie.find_matching_rule
\* answers for the path
handle_endpoint(keep_segments, path) ==
    IF keep_segments <= 0 THEN <<>>
    ELSE LET output == Split(path, 63)[1]
             cleaned_output == Split(output, 47)
             start == IF cleaned_output[1] = <<>> THEN 1 ELSE 0
             end == EndpointEnd(cleaned_output, keep_segments, 0, 0, start)
         IN <<47>> \o Join(SubSeq(cleaned_output, start + 1, end))

\* positions (0-based) of "/" in s
SlashIdx(s) == {i \in 0..(Len(s) - 1) : s[i + 1] = 47}
\* HttpInfo::grpc_package_service_name
grpc_package_service_name(info) ==
    IF ~is_grpc(info) \/ Len(info.path) < 6 THEN None
    ELSE IF Cardinality(SlashIdx(info.path)) # 2 THEN None
    ELSE LET start == CHOOSE i \in SlashIdx(info.path) : \A j \in SlashIdx(info.path) : i <= j
             end == CHOOSE i \in SlashIdx(info.path) : \A j \in SlashIdx(info.path) : i >= j
         IN IF start + 1 = end THEN None ELSE Some(Slice(info.path, start + 1, end))

\* The blacklist of the configuration: the resources (paths, gRPC service
\* names), request types, domains and endpoints it lists.  A configuration
\* is [grpc_streaming_data_enabled, http_endpoint_disabled, keep_segments,
\*     mysql_decompress_payload, blacklist]; blacklist maps a protocol to
\* None or Some([request_resource, request_type, request_domain, endpoint])
BlacklistHit(set, s) == s \in set

\* HttpInfo::set_is_on_blacklist
set_is_on_blacklist(cfg, info) ==
    IF info.proto \notin DOMAIN cfg.blacklist \/ IsNone(cfg.blacklist[info.proto]) THEN info
    ELSE LET t == cfg.blacklist[info.proto][1] IN
         [info EXCEPT !.is_on_blacklist =
             \/ IF is_grpc(info)
                THEN IsSome(info.service_name)
                     /\ BlacklistHit(t.request_resource, info.service_name[1])
                ELSE BlacklistHit(t.request_resource, info.path)
             \/ BlacklistHit(t.request_type, MethodAsStr(info.method))
             \/ BlacklistHit(t.request_domain, info.host)
             \/ (IsSome(info.endpoint) /\ BlacklistHit(t.endpoint, info.endpoint[1]))]

\* ------------------------------------------------------------------------
\* L7PerfStats and its increments (src common/flow.rs is not part of the
\* sources at hand: the fields and the fold are those the specification names)
DefaultPerf ==
    [request_count |-> 0, response_count |-> 0, err_client_count |-> 0,
     err_server_count |-> 0, err_timeout |-> 0, rrt_count |-> 0, rrt_sum |-> 0,
     rrt_max |-> 0]
\* self.perf_stats.as_mut().map(f)
PerfMap(ps, f(_)) == IF IsNone(ps) THEN ps ELSE Some(f(ps[1]))
inc_req(p) == [p EXCEPT !.request_count = @ + 1]
inc_resp(p) == [p EXCEPT !.response_count = @ + 1]
inc_req_err(p) == [p EXCEPT !.err_client_count = @ + 1]
inc_resp_err(p) == [p EXCEPT !.err_server_count = @ + 1]
update_rrt(p, rrt) ==
    [p EXCEPT !.rrt_count = @ + 1, !.rrt_sum = @ + rrt, !.rrt_max = Max(@, rrt)]

\* The RRT cache of the flow holds at most the last unmatched message:
\* None or Some([msg_type, endpoint]).  cal_rrt answers [hit, rrt, endpoint,
\* cache]: a response that finds a cached request is matched and the entry
\* removed; any other Request or Response replaces the entry.
RRT_UNIT == 1
cal_rrt(cache, info) ==
    IF IsSome(cache) /\ cache[1].msg_type = "Request" /\ info.msg_type = "Response"
    THEN [hit |-> TRUE, rrt |-> RRT_UNIT, endpoint |-> cache[1].endpoint, cache |-> None]
    ELSE [hit |-> FALSE, rrt |-> 0, endpoint |-> None,
          cache |-> IF info.msg_type \in {"Request", "Response"}
                    THEN Some([msg_type |-> info.msg_type, endpoint |-> info.endpoint])
                    ELSE cache]

\* HttpLog::set_grpc_status / set_status: [info, perf]
set_grpc_status(status_code, info, perf) ==
    IF status_code = GRPC_STATUS_OK THEN [info |-> [info EXCEPT !.status = "Ok"], perf |-> perf]
    ELSE IF status_code \in {GRPC_STATUS_CANCELLED, GRPC_STATUS_INVALID_ARGUMENT,
                             GRPC_STATUS_FAILED_PRECONDITION, GRPC_STATUS_OUT_OF_RANGE,
                             GRPC_STATUS_UNAUTHENTICATED}
            \/ (status_code >= GRPC_STATUS_NOT_FOUND
                /\ status_code <= GRPC_STATUS_PERMISSION_DENIED)
    THEN [info |-> [info EXCEPT !.status = "ClientError"], perf |-> PerfMap(perf, inc_req_err)]
    ELSE [info |-> [info EXCEPT !.status = "ServerError"], perf |-> PerfMap(perf, inc_resp_err)]

\* set_status that classifies without counting the error
set_status_uncounted(status_code, info, perf) ==
    IF status_code >= HTTP_STATUS_CLIENT_ERROR_MIN /\ status_code <= HTTP_STATUS_CLIENT_ERROR_MAX
    THEN [info |-> [info EXCEPT !.status = "ClientError"], perf |-> perf]
    ELSE IF status_code >= HTTP_STATUS_SERVER_ERROR_MIN
            /\ status_code <= HTTP_STATUS_SERVER_ERROR_MAX
    THEN [info |-> [info EXCEPT !.status = "ServerError"], perf |-> perf]
    ELSE [info |-> [info EXCEPT !.status = "Ok"], perf |-> perf]

\* HttpLog::set_status
set_status(status_code, info, perf) ==
    IF status_code >= HTTP_STATUS_CLIENT_ERROR_MIN /\ status_code <= HTTP_STATUS_CLIENT_ERROR_MAX
    THEN [info |-> [info EXCEPT !.status = "ClientError"], perf |-> PerfMap(perf, inc_req_err)]
    ELSE IF status_code >= HTTP_STATUS_SERVER_ERROR_MIN
            /\ status_code <= HTTP_STATUS_SERVER_ERROR_MAX
    THEN [info |-> [info EXCEPT !.status = "ServerError"], perf |-> PerfMap(perf, inc_resp_err)]
    ELSE [info |-> [info EXCEPT !.status = "Ok"], perf |-> perf]

SetStatusOf(info, perf) ==
    IF IsSome(info.grpc_status_code) THEN set_grpc_status(info.grpc_status_code[1], info, perf)
    ELSE set_status(info.status_code, info, perf)

\* ------------------------------------------------------------------------
\* HttpLog.  A parser is [proto, last_is_on_blacklist, perf_stats,
\* http2_req_decoder, http2_resp_decoder]; a decoder is its dynamic table.
\* A call's ParseParam is p = [dir, ebpf_type, ebpf_param, has_config, tcp,
\* parse_perf, parse_log]; cfg is the LogParserConfig behind parse_config.
\* No wasm plugin is loaded and obfuscation is off.
new_v1 ==
    [proto |-> "Http1", last_is_on_blacklist |-> FALSE, perf_stats |-> None,
     http2_req_decoder |-> None, http2_resp_decoder |-> None]
new_v2(grpc) ==
    [proto |-> IF grpc THEN "Grpc" ELSE "Http2", last_is_on_blacklist |-> FALSE,
     perf_stats |-> None, http2_req_decoder |-> None, http2_resp_decoder |-> None]

\* HttpLog::set_header_decoder
set_header_decoder(log) ==
    [log EXCEPT !.http2_req_decoder = Some(<<>>), !.http2_resp_decoder = Some(<<>>)]

\* the counting arm of set_info_by_config (src 1063-1147): [info, perf, cache, panic]
CountInfo(log, cache, p, info) ==
    LET perf == log.perf_stats
        res(i, pf, ch) == [info |-> i, perf |-> pf, cache |-> ch, panic |-> FALSE]
        \* cal_rrt(...).map(...) of the Http1 and raw arms
        timed(i, pf, c) ==
            IF ~c.hit THEN res(i, pf, c.cache)
            ELSE res([i EXCEPT !.rrt = c.rrt,
                               !.endpoint = IF i.msg_type = "Response" THEN c.endpoint ELSE @],
                     IF IsNone(pf) THEN pf ELSE Some(update_rrt(pf[1], c.rrt)), c.cache)
        rrt(i, pf) == IF i.msg_type = "Session" THEN res(i, pf, cache)
                      ELSE timed(i, pf, cal_rrt(cache, i))
        status_then_count(s) == rrt(s.info, PerfMap(s.perf, inc_resp))
        count_then_status(s) == rrt(s.info, s.perf)
        \* the Go uprobe arm (src 1089-1119)
        ended(s, ch) == res(s.info, s.perf, ch)
        uprobe(p2, i1, ch) ==
            IF p.dir = "s2c"
            THEN ended(SetStatusOf(i1, IF (info.is_req_end \/ info.is_resp_end) /\ IsSome(p2)
                                       THEN Some(update_rrt(p2[1], i1.rrt)) ELSE p2), ch)
            ELSE res(i1, IF (info.is_req_end \/ info.is_resp_end) /\ IsSome(p2)
                         THEN Some(update_rrt(p2[1], i1.rrt)) ELSE p2, ch)
        ends(p1, c) ==
            uprobe(IF info.is_resp_end THEN PerfMap(p1, inc_resp) ELSE p1,
                   IF info.msg_type # "Session" /\ c.hit
                   THEN [info EXCEPT !.rrt = c.rrt,
                                     !.endpoint = IF info.msg_type = "Response"
                                                  THEN c.endpoint ELSE @]
                   ELSE info,
                   IF info.msg_type = "Session" THEN cache ELSE c.cache)
    IN IF log.proto = "Http1" THEN
           IF p.dir = "c2s" THEN rrt(info, PerfMap(perf, inc_req))
           ELSE status_then_count(SetStatusOf(info, perf))
       ELSE IF log.proto \in {"Http2", "Grpc"} THEN
           IF p.ebpf_type = "GoHttp2Uprobe"
           THEN ends(IF info.is_req_end THEN PerfMap(perf, inc_req) ELSE perf,
                     cal_rrt(cache, info))
           ELSE IF p.dir = "c2s" THEN rrt(info, PerfMap(perf, inc_req))
           ELSE count_then_status(SetStatusOf(info, PerfMap(perf, inc_resp)))
       ELSE [info |-> info, perf |-> perf, cache |-> cache, panic |-> TRUE]

\* HttpLog::set_info_by_config: [log, cache, info, counted, panic]
set_info_by_config(log, cache, cfg, p, info) ==
    LET counted(c) ==
            [log |-> [log EXCEPT !.perf_stats = c.perf,
                                 !.last_is_on_blacklist = c.info.is_on_blacklist],
             cache |-> c.cache, info |-> c.info, counted |-> TRUE, panic |-> c.panic]
        listed(i3) ==
            IF ~i3.is_on_blacklist /\ ~log.last_is_on_blacklist
            THEN counted(CountInfo(log, cache, p, i3))
            ELSE [log |-> [log EXCEPT !.last_is_on_blacklist = i3.is_on_blacklist],
                  cache |-> cache, info |-> i3, counted |-> FALSE, panic |-> FALSE]
        named(i1) ==
            listed(set_is_on_blacklist(cfg,
                IF ~cfg.http_endpoint_disabled /\ Len(i1.path) > 0
                THEN [i1 EXCEPT !.endpoint = Some(handle_endpoint(cfg.keep_segments,
                          IF IsSome(i1.endpoint) /\ i1.endpoint[1] # <<>>
                          THEN i1.endpoint[1] ELSE i1.path))]
                ELSE i1))
    IN named([info EXCEPT !.service_name = grpc_package_service_name(info)])

IsUprobeType(e) == e \in {"GoHttp2Uprobe", "GoHttp2UprobeData", "UnixSocket"}
DecoderOf(log, dir) == IF dir = "c2s" THEN log.http2_req_decoder ELSE log.http2_resp_decoder
WithDecoder(log, dir, dec) ==
    IF dir = "c2s" THEN [log EXCEPT !.http2_req_decoder = dec]
    ELSE [log EXCEPT !.http2_resp_decoder = dec]
\* if self.perf_stats.is_none() && param.parse_perf { ... } (src 766, 824)
InitPerf(log, p) ==
    IF IsNone(log.perf_stats) /\ p.parse_perf
    THEN [log EXCEPT !.perf_stats = Some(DefaultPerf)] ELSE log

\* HttpLog::check_payload: [log, ret, panic]
HttpCheckPayload(log, cfg, p, payload) ==
    LET res(l, ret, pn) == [log |-> l, ret |-> ret, panic |-> pn]
        uprobe(l, u) == res([l EXCEPT !.proto = u.proto], u.ok /\ ~u.panic, u.panic)
        raw(l, v) == res(WithDecoder([l EXCEPT !.proto = v.proto], p.dir, v.dec),
                         v.ok /\ ~v.panic, v.panic)
        v2(l) ==
            IF IsUprobeType(p.ebpf_type) THEN
                IF p.dir = "s2c" THEN res(l, FALSE, FALSE)
                ELSE uprobe(l, check_http2_go_uprobe(cfg, p.dir, p.ebpf_type, p.ebpf_param,
                                                     payload, DefaultHttpInfo, l.proto))
            ELSE raw(l, check_http_v2(cfg, p.dir, payload, DefaultHttpInfo, l.proto,
                                      DecoderOf(l, p.dir)))
        check(l1) ==
            IF l1.proto = "Http1" THEN res(l1, http1_check_protocol(payload), FALSE)
            ELSE IF l1.proto \in {"Http2", "Grpc"} THEN
                IF ~p.has_config THEN res(l1, FALSE, FALSE)
                ELSE v2(IF IsNone(l1.http2_req_decoder) THEN set_header_decoder(l1) ELSE l1)
            ELSE res(l1, FALSE, TRUE)
    IN IF ~p.tcp THEN res(log, FALSE, FALSE) ELSE check(InitPerf(log, p))

\* What a call did with one message: the summary of an Info handed to the
\* counting code, whether or not it was exported.  status_code is the HTTP
\* status code, 0 for a MysqlInfo.
MsgOf(info, counted) ==
    [msg_type |-> info.msg_type, bl |-> info.is_on_blacklist, counted |-> counted,
     status |-> info.status,
     status_code |-> IF "status_code" \in DOMAIN info THEN info.status_code ELSE 0]

\* the loop of parse_payload, its first iteration leaving offset as it was
\* st = [log, cache, infos, msgs, offset, done, panic, steps]
RECURSIVE HttpParseLoopStall(_, _, _, _)
HttpParseLoopStall(cfg, p, payload, st) ==
    LET \* after set_info_by_config (src 945-957)
        counted(c, n) ==
            HttpParseLoopStall(cfg, p, payload,
                [log |-> c.log, cache |-> c.cache,
                 infos |-> IF ~is_invalid(c.info) \/ c.info.proto = "Grpc"
                           THEN Append(st.infos,
                                    IF IsSome(c.info.headers_offset)
                                    THEN [c.info EXCEPT !.headers_offset =
                                                            Some(@[1] + st.offset)]
                                    ELSE c.info)
                           ELSE st.infos,
                 msgs |-> Append(st.msgs, MsgOf(c.info, c.counted)),
                 offset |-> IF st.steps = <<>> THEN st.offset ELSE st.offset + n, done |-> FALSE, panic |-> c.panic,
                 steps |-> Append(st.steps, IF st.steps = <<>> THEN 0 ELSE n)])
        \* after the match on ebpf_type (src 907-943)
        matched(r, l1) ==
            IF r.panic THEN [st EXCEPT !.log = l1, !.panic = TRUE]
            ELSE IF ~r.ok THEN [st EXCEPT !.log = l1, !.done = TRUE]
            ELSE counted(set_info_by_config(l1, st.cache, cfg, p, r.info), r.n)
        uprobe(u) == matched(u, [st.log EXCEPT !.proto = u.proto])
        raw(v) == matched(v, WithDecoder([st.log EXCEPT !.proto = v.proto], p.dir, v.dec))
        body(info, rest) ==
            IF p.ebpf_type = "GoHttp2Uprobe"
            THEN uprobe(check_http2_go_uprobe(cfg, p.dir, p.ebpf_type, p.ebpf_param, rest,
                                              info, st.log.proto))
            ELSE raw(check_http_v2(cfg, p.dir, rest, info, st.log.proto,
                                   DecoderOf(st.log, p.dir)))
    IN IF st.done \/ st.panic \/ st.offset > Len(payload) THEN st
       ELSE body([DefaultHttpInfo EXCEPT !.proto = st.log.proto], Drop(payload, st.offset))

\* the loop of parse_payload (src 902-958):
\* st = [log, cache, infos, msgs, offset, done, panic, steps]
RECURSIVE HttpParseLoop(_, _, _, _)
HttpParseLoop(cfg, p, payload, st) ==
    LET \* after set_info_by_config (src 945-957)
        counted(c, n) ==
            HttpParseLoop(cfg, p, payload,
                [log |-> c.log, cache |-> c.cache,
                 infos |-> IF ~is_invalid(c.info) \/ c.info.proto = "Grpc"
                           THEN Append(st.infos,
                                    IF IsSome(c.info.headers_offset)
                                    THEN [c.info EXCEPT !.headers_offset =
                                                            Some(@[1] + st.offset)]
                                    ELSE c.info)
                           ELSE st.infos,
                 msgs |-> Append(st.msgs, MsgOf(c.info, c.counted)),
                 offset |-> st.offset + n, done |-> FALSE, panic |-> c.panic,
                 steps |-> Append(st.steps, n)])
        \* after the match on ebpf_type (src 907-943)
        matched(r, l1) ==
            IF r.panic THEN [st EXCEPT !.log = l1, !.panic = TRUE]
            ELSE IF ~r.ok THEN [st EXCEPT !.log = l1, !.done = TRUE]
            ELSE counted(set_info_by_config(l1, st.cache, cfg, p, r.info), r.n)
        uprobe(u) == matched(u, [st.log EXCEPT !.proto = u.proto])
        raw(v) == matched(v, WithDecoder([st.log EXCEPT !.proto = v.proto], p.dir, v.dec))
        body(info, rest) ==
            IF p.ebpf_type = "GoHttp2Uprobe"
            THEN uprobe(check_http2_go_uprobe(cfg, p.dir, p.ebpf_type, p.ebpf_param, rest,
                                              info, st.log.proto))
            ELSE raw(check_http_v2(cfg, p.dir, rest, info, st.log.proto,
                                   DecoderOf(st.log, p.dir)))
    IN IF st.done \/ st.panic \/ st.offset > Len(payload) THEN st
       ELSE body([DefaultHttpInfo EXCEPT !.proto = st.log.proto], Drop(payload, st.offset))

\* HttpLog::parse_payload: [log, cache, ret, infos, msgs, panic, steps] with ret
\* one of "Err", "Single", "Multi", "None" (Ok(L7ParseResult::None)); steps are
\* the lengths n the iterations of the HTTP/2 loop added to offset
HttpParsePayload(log, cache, cfg, p, payload) ==
    LET out_of(l, ch, ret, infos, msgs, pn, steps) ==
            [log |-> l, cache |-> ch, ret |-> ret, infos |-> infos, msgs |-> msgs,
             panic |-> pn, steps |-> steps]
        res(l, ch, ret, infos, msgs, pn) == out_of(l, ch, ret, infos, msgs, pn, <<>>)
        single(c) == res(c.log, c.cache, IF p.parse_log THEN "Single" ELSE "None",
                         IF p.parse_log THEN <<c.info>> ELSE <<>>,
                         <<MsgOf(c.info, c.counted)>>, c.panic)
        v1(l1, h) ==
            IF ~h.ok THEN res([l1 EXCEPT !.proto = h.proto], cache, "Err", <<>>, <<>>, FALSE)
            ELSE single(set_info_by_config([l1 EXCEPT !.proto = h.proto], cache, cfg, p,
                                           h.info))
        multi(st) == out_of(st.log, st.cache,
                            IF ~p.parse_log THEN "None"
                            ELSE IF st.infos # <<>> THEN "Multi" ELSE "Err",
                            IF p.parse_log THEN st.infos ELSE <<>>, st.msgs, st.panic,
                            st.steps)
        parse(l1) ==
            IF l1.proto = "Http1"
            THEN v1(l1, parse_http_v1(cfg, p.dir, payload,
                                      [DefaultHttpInfo EXCEPT !.proto = l1.proto], l1.proto))
            ELSE IF l1.proto \in {"Http2", "Grpc"}
            THEN multi(HttpParseLoop(cfg, p, payload,
                          [log |-> IF IsNone(l1.http2_req_decoder)
                                   THEN set_header_decoder(l1) ELSE l1,
                           cache |-> cache, infos |-> <<>>, msgs |-> <<>>,
                           offset |-> 0, done |-> FALSE, panic |-> FALSE,
                           steps |-> <<>>]))
            ELSE res(l1, cache, "Err", <<>>, <<>>, TRUE)
    IN IF ~p.has_config THEN res(log, cache, "Err", <<>>, <<>>, FALSE)
       ELSE parse(InitPerf(log, p))

\* a reset that rebuilds every HTTP/2 family parser as Http2
HttpResetToHttp2(log) ==
    [log EXCEPT !.proto = IF @ = "Http1" THEN "Http1" ELSE "Http2"]

\* HttpLog::reset
\* a reset that starts a new perf accumulator
HttpResetDropPerf(log) ==
    [proto |-> log.proto, last_is_on_blacklist |-> log.last_is_on_blacklist,
     perf_stats |-> None, http2_req_decoder |-> log.http2_req_decoder,
     http2_resp_decoder |-> log.http2_resp_decoder]

HttpReset(log) ==
    [proto |-> log.proto, last_is_on_blacklist |-> log.last_is_on_blacklist,
     perf_stats |-> log.perf_stats, http2_req_decoder |-> log.http2_req_decoder,
     http2_resp_decoder |-> log.http2_resp_decoder]

\* ------------------------------------------------------------------------
\* MySQL.  Constants of sql::mysql::consts (the MySQL wire protocol; the
\* header lengths are the ones the specification states).
HEADER_LEN == 4
COMPRESS_HEADER_LEN == 7
COMPRESS_HEADER_UNCOMPRESS_OFFSET == 4
LOGIN_USERNAME_OFFSET == 32
FILTER_OFFSET == 9
FILTER_SIZE == 23
CLIENT_PROTOCOL_41 == 512
THREAD_ID_LEN == 4
PROTOCOL_VERSION == 10
SQL_STATE_OFFSET == 3
SQL_STATE_LEN == 6
SQL_STATE_MARKER == 35
ERROR_CODE_LEN == 2
STATEMENT_ID_LEN == 4
COM_QUIT == 1
COM_INIT_DB == 2
COM_QUERY == 3
COM_FIELD_LIST == 4
COM_PING == 14
COM_STMT_PREPARE == 22
COM_STMT_EXECUTE == 23
COM_STMT_CLOSE == 25
COM_STMT_FETCH == 28
MYSQL_RESPONSE_CODE_OK == 0
MYSQL_RESPONSE_CODE_ERR == 255
MYSQL_RESPONSE_CODE_EOF == 254
SERVER_STATUS_CODE_MIN == 1000
CLIENT_STATUS_CODE_MIN == 2000
CLIENT_STATUS_CODE_MAX == 2999

\* MysqlHeader::new: [length, seq_id, panic]; asserts four bytes
MysqlHeader(s) ==
    [length |-> At(s, 0) + At(s, 1) * 256 + At(s, 2) * 65536, seq_id |-> At(s, 3),
     panic |-> Len(s) < HEADER_LEN]

\* 24-bit little-endian uncompressed length of the compression header
UncompressedLen(payload) ==
    read_u16_le(Drop(payload, COMPRESS_HEADER_UNCOMPRESS_OFFSET))
    + At(payload, COMPRESS_HEADER_UNCOMPRESS_OFFSET + 2) * 65536

\* the packet walk of PayloadParser::is_compressed (src 1155-1166)
RECURSIVE WalkPackets(_, _)
WalkPackets(payload, offset) ==
    IF ~(offset + HEADER_LEN < Len(payload))
    THEN [ok |-> FALSE, val |-> FALSE, panic |-> FALSE]
    ELSE LET header == MysqlHeader(Drop(payload, offset))
             next == offset + HEADER_LEN + header.length
         IN IF header.panic THEN [ok |-> FALSE, val |-> FALSE, panic |-> TRUE]
            ELSE IF next > Len(payload) THEN [ok |-> FALSE, val |-> FALSE, panic |-> FALSE]
            ELSE IF next = Len(payload) THEN [ok |-> TRUE, val |-> FALSE, panic |-> FALSE]
            ELSE WalkPackets(payload, next)

\* PayloadParser::is_compressed: [ok, val, panic]; ok = FALSE is Err(Truncated)
is_compressed(payload) ==
    LET compressed_len == At(payload, 0) + At(payload, 1) * 256 + At(payload, 2) * 65536
        uncompressed_len == UncompressedLen(payload)
    IN IF Len(payload) >= COMPRESS_HEADER_LEN
          /\ (uncompressed_len = 0 \/ uncompressed_len >= compressed_len)
          /\ COMPRESS_HEADER_LEN + compressed_len = Len(payload)
       THEN [ok |-> TRUE, val |-> TRUE, panic |-> FALSE]
       ELSE WalkPackets(payload, 0)

\* flate2::bufread::ZlibDecoder (external crate): the bytes a stream yields
\* before its end or its first error.  A stream is modelled as the zlib
\* header byte 0x78 followed by its content; anything else yields nothing.
ZlibStream(s) == IF s # <<>> /\ s[1] = 120 THEN Tail(s) ELSE <<>>

\* PayloadParser::new taking every payload under a compression header for a
\* zlib stream, whatever its uncompressed length
PayloadParserNewAlwaysZlib(decompress, has_compressed_header, payload) ==
    LET bad(e) == [err |-> e, payload |-> <<>>, decoder |-> None, panic |-> FALSE]
    IN IF has_compressed_header /\ Len(payload) < COMPRESS_HEADER_LEN THEN bad("Truncated")
       ELSE IF has_compressed_header THEN
           IF ~decompress THEN bad("CompressedPacketNotParsed")
           ELSE [err |-> "Ok", payload |-> payload,
                 decoder |-> Some(ZlibStream(Drop(payload, COMPRESS_HEADER_LEN))),
                 panic |-> OobDrop(payload, COMPRESS_HEADER_LEN)]
       ELSE [err |-> "Ok", payload |-> payload, decoder |-> None, panic |-> FALSE]

\* PayloadParser::new: [err, payload, decoder]; decoder is None or Some of the
\* bytes still to be read from the stream
PayloadParserNew(decompress, has_compressed_header, payload) ==
    LET bad(e) == [err |-> e, payload |-> <<>>, decoder |-> None, panic |-> FALSE]
        compressed == has_compressed_header /\ UncompressedLen(payload) # 0
    IN IF has_compressed_header /\ Len(payload) < COMPRESS_HEADER_LEN THEN bad("Truncated")
       ELSE IF compressed THEN
           IF ~decompress THEN bad("CompressedPacketNotParsed")
           ELSE [err |-> "Ok", payload |-> payload,
                 decoder |-> Some(ZlibStream(Drop(payload, COMPRESS_HEADER_LEN))),
                 panic |-> OobDrop(payload, COMPRESS_HEADER_LEN)]
       ELSE [err |-> "Ok",
             payload |-> IF has_compressed_header THEN Drop(payload, COMPRESS_HEADER_LEN)
                         ELSE payload,
             decoder |-> None,
             panic |-> has_compressed_header /\ OobDrop(payload, COMPRESS_HEADER_LEN)]

\* PayloadParser::try_next: [err, header, frame, parser, panic]
try_next(parser) ==
    LET nohdr == [length |-> 0, seq_id |-> 0, panic |-> FALSE] IN
    IF IsSome(parser.decoder) THEN
        LET strm == parser.decoder[1]
            header == MysqlHeader(Take(strm, HEADER_LEN))
            body == Drop(strm, HEADER_LEN)
        IN IF Len(strm) < HEADER_LEN
           THEN [err |-> "Truncated", header |-> nohdr, frame |-> <<>>,
                 parser |-> [parser EXCEPT !.decoder = Some(<<>>)], panic |-> FALSE]
           ELSE [err |-> "Ok", header |-> header, frame |-> Take(body, header.length),
                 parser |-> [parser EXCEPT !.decoder = Some(Drop(body, Min(header.length, Len(body))))],
                 panic |-> header.panic]
    ELSE IF Len(parser.payload) < HEADER_LEN
    THEN [err |-> "Truncated", header |-> nohdr, frame |-> <<>>,
          parser |-> [parser EXCEPT !.payload = <<>>], panic |-> FALSE]
    ELSE LET header == MysqlHeader(Take(parser.payload, HEADER_LEN))
             end_of_frame == Min(Len(parser.payload), HEADER_LEN + header.length)
         IN [err |-> "Ok", header |-> header,
             frame |-> Slice(parser.payload, HEADER_LEN, end_of_frame),
             parser |-> [parser EXCEPT !.payload = Drop(parser.payload, end_of_frame)],
             panic |-> header.panic \/ OobSlice(parser.payload, HEADER_LEN, end_of_frame)]

\* mysql_string
mysql_string(payload) ==
    IF Len(payload) > 2 /\ payload[1] = 0 /\ payload[2] = 1 THEN Drop(payload, 2) ELSE payload

\* sql_check::is_mysql (not part of the sources at hand): the statement
\* starts with an SQL keyword
SQL_KEYWORDS ==
    {<<83, 69, 76, 69, 67, 84>>, <<73, 78, 83, 69, 82, 84>>, <<85, 80, 68, 65, 84, 69>>,
     <<68, 69, 76, 69, 84, 69>>, <<83, 69, 84>>, <<83, 72, 79, 87>>}
ToUpper(s) == [i \in 1..Len(s) |-> IF s[i] >= 97 /\ s[i] <= 122 THEN s[i] - 32 ELSE s[i]]
is_mysql(context) ==
    LET t == TrimStart(context)
        w == FindWs(t, 0)
    IN ToUpper(IF w < 0 THEN t ELSE Take(t, w)) \in SQL_KEYWORDS

\* MysqlInfo::default() (the trace ids are not modelled)
DefaultMysqlInfo ==
    [msg_type |-> "Other", protocol_version |-> 0, command |-> 0, context |-> <<>>,
     response_code |-> 0, error_code |-> None, error_message |-> <<>>,
     statement_id |-> 0, status |-> "Unknown", rrt |-> 0,
     is_on_blacklist |-> FALSE, affected_rows |-> 0,
     captured_request_byte |-> 0, captured_response_byte |-> 0]

\* MysqlInfo::statement_id
statement_id(info, payload) ==
    IF Len(payload) >= STATEMENT_ID_LEN
    THEN [info EXCEPT !.statement_id = read_u32_le(payload)] ELSE info

\* position of the first NUL of s (0-based), -1 when there is none
PosNul(s) == FindByte(s, 0, 0)

\* MysqlLog::is_greeting
is_greeting(payload) ==
    /\ Len(payload) > 0
    /\ payload[1] \in {9, 10}
    /\ LET sv == Drop(payload, 1)
           eos == PosNul(sv)
       IN /\ Len(sv) > 1
          /\ eos >= 0
          /\ \A i \in 1..eos : sv[i] = 46 \/ IsDigit(sv[i])

\* MysqlLog::greeting: [err, info, protocol_version, panic]
greeting(payload, info) ==
    LET pos == Max(PosNul(Drop(payload, 1)), 0)
        remain == Len(payload) - 1 - pos
        bad == [err |-> "Truncated", info |-> info, protocol_version |-> 0, panic |-> FALSE]
    IN IF Len(payload) < 1 THEN bad
       ELSE IF pos <= 0 THEN bad
       ELSE IF remain < 0 THEN [bad EXCEPT !.panic = TRUE]
       ELSE IF remain < THREAD_ID_LEN + 1 THEN bad
       ELSE [err |-> "Ok", info |-> [info EXCEPT !.status = "Ok"],
             protocol_version |-> payload[1], panic |-> FALSE]

\* MysqlInfo::request_string (no obfuscation, no trace types configured):
\* [err, info]
request_string(info, payload) ==
    LET str == mysql_string(payload) IN
    IF info.command \in {COM_QUERY, COM_STMT_PREPARE} /\ ~is_mysql(str)
    THEN [err |-> "InvalidSqlStatement", info |-> info]
    ELSE IF ~IsUtf8(str) THEN [err |-> "InvalidSqlStatement", info |-> info]
    ELSE [err |-> "Ok", info |-> [info EXCEPT !.context = Lossy(str)]]

\* MysqlLog::request: [err, info, msg_type, panic].  Prepared-statement
\* parameters are not decoded: the inputs carry no parameter block.
request(payload, info) ==
    LET i0 == [info EXCEPT !.command = At(payload, 0)]
        res(e, i, m) == [err |-> e, info |-> i, msg_type |-> m, panic |-> FALSE]
        rs == request_string(i0, Drop(payload, 1))
    IN IF Len(payload) < 1 THEN res("Truncated", info, "Request")
       ELSE IF i0.command \in {COM_QUIT, COM_STMT_CLOSE}
       THEN res("Ok", [i0 EXCEPT !.status = "Ok"], "Session")
       ELSE IF i0.command \in {COM_FIELD_LIST, COM_STMT_FETCH, COM_PING}
       THEN res("Ok", i0, "Request")
       ELSE IF i0.command \in {COM_INIT_DB, COM_QUERY, COM_STMT_PREPARE}
       THEN res(rs.err, rs.info, "Request")
       ELSE IF i0.command = COM_STMT_EXECUTE
       THEN res("Ok", statement_id(i0, Drop(payload, 1)), "Request")
       ELSE res("CommandNotSupported", i0, "Request")

\* MysqlLog::set_status
mysql_set_status(status_code, info) ==
    IF status_code # 0 THEN
        IF status_code >= CLIENT_STATUS_CODE_MIN /\ status_code <= CLIENT_STATUS_CODE_MAX
        THEN [info EXCEPT !.status = "ClientError"]
        ELSE [info EXCEPT !.status = "ServerError"]
    ELSE [info EXCEPT !.status = "Ok"]

\* MysqlLog::response: [err, info, panic]
response(payload, info) ==
    LET i0 == [info EXCEPT !.response_code = At(payload, 0)]
        remain0 == Len(payload) - 1
        hascode == remain0 > ERROR_CODE_LEN
        code == read_u16_le(Drop(payload, 1))
        i1 == IF hascode THEN mysql_set_status(code, [i0 EXCEPT !.error_code = Some(code)])
              ELSE i0
        remain == IF hascode THEN remain0 - ERROR_CODE_LEN ELSE remain0
        marker == remain > SQL_STATE_LEN /\ At(payload, SQL_STATE_OFFSET) = SQL_STATE_MARKER
        error_message_offset == IF marker THEN SQL_STATE_OFFSET + SQL_STATE_LEN
                                ELSE SQL_STATE_OFFSET
        context == mysql_string(Drop(payload, error_message_offset))
        res(e, i, pn) == [err |-> e, info |-> i, panic |-> pn]
    IN IF Len(payload) < 1 THEN res("Truncated", info, FALSE)
       ELSE IF i0.response_code = MYSQL_RESPONSE_CODE_ERR THEN
           IF hascode /\ (code < SERVER_STATUS_CODE_MIN \/ code > CLIENT_STATUS_CODE_MAX)
           THEN res("InvalidResponseErrorCode", i0, FALSE)
           ELSE IF remain > SQL_STATE_LEN /\ OobAt(payload, SQL_STATE_OFFSET)
           THEN res("Ok", i1, TRUE)
           ELSE IF error_message_offset < Len(payload) THEN
               IF ~IsAscii(context) THEN res("InvalidResponseErrorMessage", i1, FALSE)
               ELSE res("Ok", [i1 EXCEPT !.error_message = context], FALSE)
           ELSE res("Ok", i1, FALSE)
       ELSE IF i0.response_code = MYSQL_RESPONSE_CODE_EOF
       THEN res("Ok", [i0 EXCEPT !.status = "Ok"], FALSE)
       ELSE IF i0.response_code = MYSQL_RESPONSE_CODE_OK
       THEN res("Ok", statement_id([i0 EXCEPT !.status = "Ok"], Drop(payload, 1)), FALSE)
       ELSE res("Ok", i0, FALSE)

\* MysqlLog::string_null
string_null(payload) ==
    LET nul == PosNul(payload)
        n == IF nul < 0 THEN Len(payload) ELSE nul
        bad == \E i \in 1..Len(payload) :
                   payload[i] >= 128 /\ \A j \in 1..(i - 1) : payload[j] # 0
    IN IF bad \/ n = 0 THEN None ELSE Some(Take(payload, n))

\* "Login username: "
LOGIN_PREFIX == <<76, 111, 103, 105, 110, 32, 117, 115, 101, 114, 110, 97, 109, 101, 58, 32>>
\* MysqlLog::login: [err, info, panic]
login(payload, info) ==
    LET flags == read_u16_le(payload)
        name == string_null(Drop(payload, LOGIN_USERNAME_OFFSET))
        res(e, i) == [err |-> e, info |-> i, panic |-> FALSE]
    IN IF Len(payload) < LOGIN_USERNAME_OFFSET THEN res("Truncated", info)
       ELSE IF BitAnd(flags, CLIENT_PROTOCOL_41) # CLIENT_PROTOCOL_41
       THEN res("InvalidLoginInfo", info)
       ELSE IF \E i \in FILTER_OFFSET..(FILTER_OFFSET + FILTER_SIZE - 1) : At(payload, i) # 0
       THEN res("InvalidLoginInfo", info)
       ELSE IF IsNone(name) THEN res("InvalidLoginInfo", info)
       ELSE res("Ok", [info EXCEPT !.context = LOGIN_PREFIX \o name[1], !.status = "Ok"])

\* MysqlLog::is_interested_response
is_interested_response(code) ==
    code \in {MYSQL_RESPONSE_CODE_OK, MYSQL_RESPONSE_CODE_ERR, MYSQL_RESPONSE_CODE_EOF}

\* config.map(|c| c.mysql_decompress_payload).unwrap_or(default): the
\* default configuration decompresses
DecompressOf(cfg, p) == IF p.has_config THEN cfg.mysql_decompress_payload ELSE TRUE

\* MysqlLog::check: [ret, panic]
MysqlCheck(decompress, has_compressed_header, payload) ==
    LET res(ret, pn) == [ret |-> ret, panic |-> pn]
        query(context) == res(IsAscii(context) /\ is_mysql(context), FALSE)
        logged(lg) == res(lg.err = "Ok", lg.panic)
        framed(f) ==
            IF f.panic THEN res(FALSE, TRUE)
            ELSE IF f.err # "Ok" THEN res(FALSE, FALSE)
            ELSE IF f.frame = <<>> THEN res(FALSE, FALSE)
            ELSE IF f.frame[1] \in {COM_QUERY, COM_STMT_PREPARE} /\ f.header.seq_id = 0
            THEN query(mysql_string(Drop(f.frame, 1)))
            ELSE IF f.header.seq_id # 0 THEN logged(login(f.frame, DefaultMysqlInfo))
            ELSE res(FALSE, FALSE)
        parser(pp) ==
            IF pp.panic THEN res(FALSE, TRUE)
            ELSE IF pp.err # "Ok" THEN res(FALSE, FALSE)
            ELSE framed(try_next(pp))
    IN parser(PayloadParserNew(decompress, has_compressed_header, payload))

\* MysqlLog::infer_message_type: None or Some(msg_type)
infer_message_type(dir, header, payload) ==
    IF header.length = 0 THEN None
    ELSE IF dir = "s2c" /\ header.seq_id = 0 /\ is_greeting(payload) THEN
        LET index == PosNul(Drop(payload, 1)) IN
        IF index < 0 THEN None
        ELSE IF index # 0 /\ payload[1] = PROTOCOL_VERSION THEN Some("Other") ELSE None
    ELSE IF dir = "s2c" THEN Some("Response")
    ELSE IF header.seq_id <= 1 THEN Some("Request")
    ELSE None

\* the frame parse() looks at (src 1061-1086): [err, header, frame, panic]
RECURSIVE ResponseFrame(_)
ResponseFrame(parser) ==
    LET next(f) ==
            IF f.panic \/ f.err # "Ok" THEN f
            ELSE IF f.header.length = 0 THEN ResponseFrame(f.parser)
            ELSE IF (f.header.seq_id = 0 /\ is_greeting(f.frame))
                    \/ (f.frame # <<>> /\ is_interested_response(f.frame[1]))
            THEN f
            ELSE ResponseFrame(f.parser)
    IN next(try_next(parser))

\* A MySQL parser is [protocol_version, perf_stats, has_request, has_login,
\* last_is_on_blacklist, has_compressed_header].
\* MysqlLog::parse: [err, is_greeting, log, info, panic]
MysqlParse(log, decompress, payload, dir, info) ==
    LET res(e, g, l, i, pn) == [err |-> e, is_greeting |-> g, log |-> l, info |-> i, panic |-> pn]
        requested(rq) ==
            IF rq.err # "Ok" THEN res(rq.err, FALSE, log, rq.info, rq.panic)
            ELSE res("Ok", FALSE,
                     IF rq.msg_type = "Request"
                     THEN [log EXCEPT !.has_request = TRUE, !.has_login = FALSE] ELSE log,
                     [rq.info EXCEPT !.msg_type = rq.msg_type], rq.panic)
        logged(lg) ==
            IF lg.err # "Ok" THEN res(lg.err, FALSE, log, lg.info, lg.panic)
            ELSE res("Ok", FALSE, [log EXCEPT !.has_login = TRUE],
                     [lg.info EXCEPT !.msg_type = "Request"], lg.panic)
        responded(rp, l) ==
            IF rp.err # "Ok" THEN res(rp.err, FALSE, log, rp.info, rp.panic)
            ELSE res("Ok", FALSE, l, [rp.info EXCEPT !.msg_type = "Response"], rp.panic)
        greeted(gr) ==
            IF gr.err # "Ok" THEN res(gr.err, FALSE, log, gr.info, gr.panic)
            ELSE res("Ok", TRUE, [log EXCEPT !.protocol_version = gr.protocol_version],
                     gr.info, gr.panic)
        typed(f, mt) ==
            IF IsNone(mt) THEN res("IgnoredPacket", FALSE, log, info, FALSE)
            ELSE IF mt[1] = "Request" /\ f.header.seq_id = 0
            THEN requested(request(f.frame, info))
            ELSE IF mt[1] = "Request" /\ dir = "c2s" /\ f.header.seq_id = 1
            THEN logged(login(f.frame, info))
            ELSE IF mt[1] = "Response" /\ OobAt(f.frame, 0)
            THEN res("Ok", FALSE, log, info, TRUE)
            ELSE IF mt[1] = "Response"
                    /\ ((log.has_login /\ At(f.frame, 0) = MYSQL_RESPONSE_CODE_OK)
                        \/ At(f.frame, 0) = MYSQL_RESPONSE_CODE_ERR)
            THEN responded(response(f.frame, info), [log EXCEPT !.has_login = FALSE])
            ELSE IF mt[1] = "Response" /\ log.has_request
            THEN responded(response(f.frame, info), [log EXCEPT !.has_request = FALSE])
            ELSE IF mt[1] = "Other" THEN greeted(greeting(f.frame, info))
            ELSE res("IgnoredPacket", FALSE, log, info, FALSE)
        framed(f) ==
            IF f.panic THEN res("Ok", FALSE, log, info, TRUE)
            ELSE IF f.err # "Ok" THEN res(f.err, FALSE, log, info, FALSE)
            ELSE typed(f, infer_message_type(dir, f.header, f.frame))
        parser(pp) ==
            IF IsNone(log.has_compressed_header) \/ pp.panic
            THEN res("Ok", FALSE, log, info, TRUE)
            ELSE IF pp.err # "Ok" THEN res(pp.err, FALSE, log, info, FALSE)
            ELSE IF dir = "c2s" THEN framed(try_next(pp)) ELSE framed(ResponseFrame(pp))
    IN parser(PayloadParserNew(decompress, UnwrapOr(log.has_compressed_header, FALSE),
                               payload))

\* MysqlInfo::get_command_str
COMMAND_STR ==
    <<"", "COM_QUIT", "COM_INIT_DB", "COM_QUERY", "COM_FIELD_LIST", "COM_CREATE_DB",
      "COM_DROP_DB", "COM_REFRESH", "COM_SHUTDOWN", "COM_STATISTICS", "COM_PROCESS_INFO",
      "COM_CONNECT", "COM_PROCESS_KILL", "COM_DEBUG", "COM_PING", "COM_TIME",
      "COM_DELAYED_INSERT", "COM_CHANGE_USER", "COM_BINLOG_DUMP", "COM_TABLE_DUMP",
      "COM_CONNECT_OUT", "COM_REGISTER_SLAVE", "COM_STMT_PREPARE", "COM_STMT_EXECUTE",
      "COM_STMT_SEND_LONG_DATA", "COM_STMT_CLOSE", "COM_STMT_RESET", "COM_SET_OPTION",
      "COM_STMT_FETCH", "COM_DAEMON", "COM_BINLOG_DUMP_GTID", "COM_RESET_CONNECTION">>
get_command_str(info) == IF info.command <= 31 THEN COMMAND_STR[info.command + 1] ELSE ""

\* MysqlInfo::set_is_on_blacklist
mysql_set_is_on_blacklist(cfg, info) ==
    IF IsNone(cfg.blacklist.MySQL) THEN info
    ELSE LET t == cfg.blacklist.MySQL[1] IN
         [info EXCEPT !.is_on_blacklist =
             BlacklistHit(t.request_resource, info.context)
             \/ BlacklistHit(t.request_type, get_command_str(info))]

new_mysql ==
    [protocol_version |-> 0, perf_stats |-> None, has_request |-> FALSE,
     has_login |-> FALSE, last_is_on_blacklist |-> FALSE, has_compressed_header |-> None]

\* MysqlLog::check_compressed_header: [ok, log, panic]
check_compressed_header(log, payload) ==
    LET c == is_compressed(payload) IN
    [ok |-> c.ok, panic |-> c.panic,
     log |-> IF c.ok THEN [log EXCEPT !.has_compressed_header = Some(c.val)] ELSE log]

\* EbpfType::is_raw_protocol
is_raw_protocol(e) == ~IsUprobeType(e)

\* MysqlLog::check_payload: [log, ret, panic]
MysqlCheckPayload(log, cfg, p, payload) ==
    LET res(l, ret, pn) == [log |-> l, ret |-> ret, panic |-> pn]
        checked(l, c) == res(l, c.ret /\ ~c.panic, c.panic \/ IsNone(l.has_compressed_header))
        header(h) ==
            IF h.panic THEN res(log, FALSE, TRUE)
            ELSE IF ~h.ok THEN res(h.log, FALSE, FALSE)
            ELSE checked(h.log, MysqlCheck(DecompressOf(cfg, p),
                                           UnwrapOr(h.log.has_compressed_header, FALSE),
                                           payload))
    IN IF ~is_raw_protocol(p.ebpf_type) \/ ~p.tcp THEN res(log, FALSE, FALSE)
       ELSE IF IsNone(log.has_compressed_header)
       THEN header(check_compressed_header(log, payload))
       ELSE header([ok |-> TRUE, log |-> log, panic |-> FALSE])

\* the counting part of MysqlLog::parse_payload (src 528-562):
\* [log, cache, info, counted]
MysqlCount(log, cache, cfg, p, info0) ==
    LET timed(info, p2, c) ==
            [log |-> [log EXCEPT !.perf_stats = IF c.hit /\ IsSome(p2)
                                                THEN Some(update_rrt(p2[1], c.rrt)) ELSE p2,
                                 !.last_is_on_blacklist = FALSE],
             cache |-> c.cache,
             info |-> IF c.hit THEN [info EXCEPT !.rrt = c.rrt] ELSE info,
             counted |-> TRUE]
        status(info, p1) ==
            IF info.status = "ClientError" THEN PerfMap(p1, inc_req_err)
            ELSE IF info.status = "ServerError" THEN PerfMap(p1, inc_resp_err) ELSE p1
        perf(info, p2) ==
            IF info.msg_type \in {"Request", "Response"}
            THEN timed(info, p2, cal_rrt(cache, [msg_type |-> info.msg_type,
                                                 endpoint |-> None]))
            ELSE [log |-> [log EXCEPT !.perf_stats = p2, !.last_is_on_blacklist = FALSE],
                  cache |-> cache, info |-> info, counted |-> TRUE]
        listed(info) ==
            IF ~info.is_on_blacklist /\ ~log.last_is_on_blacklist
            THEN perf(info, status(info, IF p.dir = "c2s"
                                         THEN PerfMap(log.perf_stats, inc_req)
                                         ELSE PerfMap(log.perf_stats, inc_resp)))
            ELSE [log |-> [log EXCEPT !.last_is_on_blacklist = info.is_on_blacklist],
                  cache |-> cache, info |-> info, counted |-> FALSE]
    IN IF p.has_config THEN listed(mysql_set_is_on_blacklist(cfg, info0)) ELSE listed(info0)

\* parse_payload classifying the connection anew from every payload
MysqlParsePayloadReclassify(log, cache, cfg, p, payload) ==
    LET res(l, c, r, pn) == [log |-> l, cache |-> c, ret |-> r, infos |-> <<>>,
                             msgs |-> <<>>, panic |-> pn]
        counted(c) == [log |-> c.log, cache |-> c.cache,
                       ret |-> IF p.parse_log THEN "Single" ELSE "None",
                       infos |-> IF p.parse_log THEN <<c.info>> ELSE <<>>,
                       msgs |-> <<MsgOf(c.info, c.counted)>>, panic |-> FALSE]
        go(l, i) == counted(MysqlCount(l, cache, cfg, p, i))
        parsed(r) ==
            IF r.panic THEN res(r.log, cache, "Err", TRUE)
            ELSE IF r.err = "Ok" THEN
                IF r.is_greeting THEN res(r.log, cache, "None", FALSE) ELSE go(r.log, r.info)
            ELSE IF r.err = "IgnoredPacket" THEN res(r.log, cache, "None", FALSE)
            ELSE IF r.err = "Truncated" /\ p.dir = "s2c"
            THEN go(r.log, [r.info EXCEPT !.msg_type = "Response", !.status = "Ok"])
            ELSE IF r.err = "Truncated" THEN res(r.log, cache, "None", FALSE)
            ELSE IF r.err = "CompressedPacketNotParsed" /\ p.dir = "s2c"
            THEN go(r.log, [r.info EXCEPT !.msg_type = "Response", !.status = "ParseFailed"])
            ELSE IF r.err = "CommandNotSupported" THEN res(r.log, cache, "None", FALSE)
            ELSE res(r.log, cache, "Err", FALSE)
        header(l1, h) ==
            IF h.panic THEN res(l1, cache, "Err", TRUE)
            ELSE IF ~h.ok THEN res(h.log, cache, "Err", FALSE)
            ELSE parsed(MysqlParse(h.log, DecompressOf(cfg, p), payload, p.dir,
                            [DefaultMysqlInfo EXCEPT !.protocol_version = log.protocol_version]))
        start(l1) == header(l1, check_compressed_header(l1, payload))
    IN IF ~p.tcp THEN res(log, cache, "Err", FALSE) ELSE start(InitPerf(log, p))

\* MysqlLog::parse_payload: [log, cache, ret, infos, msgs, panic]
MysqlParsePayload(log, cache, cfg, p, payload) ==
    LET res(l, c, r, pn) == [log |-> l, cache |-> c, ret |-> r, infos |-> <<>>,
                             msgs |-> <<>>, panic |-> pn]
        counted(c) == [log |-> c.log, cache |-> c.cache,
                       ret |-> IF p.parse_log THEN "Single" ELSE "None",
                       infos |-> IF p.parse_log THEN <<c.info>> ELSE <<>>,
                       msgs |-> <<MsgOf(c.info, c.counted)>>, panic |-> FALSE]
        go(l, i) == counted(MysqlCount(l, cache, cfg, p, i))
        parsed(r) ==
            IF r.panic THEN res(r.log, cache, "Err", TRUE)
            ELSE IF r.err = "Ok" THEN
                IF r.is_greeting THEN res(r.log, cache, "None", FALSE) ELSE go(r.log, r.info)
            ELSE IF r.err = "IgnoredPacket" THEN res(r.log, cache, "None", FALSE)
            ELSE IF r.err = "Truncated" /\ p.dir = "s2c"
            THEN go(r.log, [r.info EXCEPT !.msg_type = "Response", !.status = "Ok"])
            ELSE IF r.err = "Truncated" THEN res(r.log, cache, "None", FALSE)
            ELSE IF r.err = "CompressedPacketNotParsed" /\ p.dir = "s2c"
            THEN go(r.log, [r.info EXCEPT !.msg_type = "Response", !.status = "ParseFailed"])
            ELSE IF r.err = "CommandNotSupported" THEN res(r.log, cache, "None", FALSE)
            ELSE res(r.log, cache, "Err", FALSE)
        header(l1, h) ==
            IF h.panic THEN res(l1, cache, "Err", TRUE)
            ELSE IF ~h.ok THEN res(h.log, cache, "Err", FALSE)
            ELSE parsed(MysqlParse(h.log, DecompressOf(cfg, p), payload, p.dir,
                            [DefaultMysqlInfo EXCEPT !.protocol_version = log.protocol_version]))
        start(l1) ==
            IF IsNone(l1.has_compressed_header)
            THEN header(l1, check_compressed_header(l1, payload))
            ELSE header(l1, [ok |-> TRUE, log |-> l1, panic |-> FALSE])
    IN IF ~p.tcp THEN res(log, cache, "Err", FALSE) ELSE start(InitPerf(log, p))

\* ------------------------------------------------------------------------
\* Merging the Info records of one session.

\* swap_if!(self, field, predicate, other): the value of self.field after
\* the macro, which swaps the two fields when self's satisfies the predicate
swap_if(this, predicate, other) == IF predicate THEN other ELSE this

\* a merge that lets a request fragment replace the host already held
HttpMergeLatestHost(self, other) ==
    LET listed == [self EXCEPT !.is_on_blacklist = IF other.is_on_blacklist THEN TRUE ELSE @]
        req_side ==
            [listed EXCEPT
                !.path = swap_if(@, @ = <<>>, other.path),
                !.host = other.host,
                !.method = swap_if(@, @ = "None", other.method),
                !.user_agent = swap_if(@, IsNone(@), other.user_agent),
                !.referer = swap_if(@, IsNone(@), other.referer),
                !.endpoint = swap_if(@, IsNone(@), other.endpoint),
                !.service_name = swap_if(@, IsNone(@), other.service_name),
                !.is_req_end = IF other.is_req_end THEN TRUE ELSE @,
                !.req_content_length = IF IsNone(@) THEN other.req_content_length ELSE @,
                !.captured_request_byte = @ + other.captured_request_byte]
    IN IF other.msg_type = "Request" THEN req_side ELSE listed

\* HttpInfo::merge: self after self.merge(other)
HttpMerge(self, other) ==
    LET listed == [self EXCEPT !.is_on_blacklist = IF other.is_on_blacklist THEN TRUE ELSE @]
        req_side ==
            [listed EXCEPT
                !.path = swap_if(@, @ = <<>>, other.path),
                !.host = swap_if(@, @ = <<>>, other.host),
                !.method = swap_if(@, @ = "None", other.method),
                !.user_agent = swap_if(@, IsNone(@), other.user_agent),
                !.referer = swap_if(@, IsNone(@), other.referer),
                !.endpoint = swap_if(@, IsNone(@), other.endpoint),
                !.service_name = swap_if(@, IsNone(@), other.service_name),
                !.is_req_end = IF other.is_req_end THEN TRUE ELSE @,
                !.req_content_length = IF IsNone(@) THEN other.req_content_length ELSE @,
                !.captured_request_byte = @ + other.captured_request_byte]
        resp_side ==
            [listed EXCEPT
                !.status = IF other.status # DefaultHttpInfo.status THEN other.status ELSE @,
                !.status_code = IF @ = 0 THEN other.status_code ELSE @,
                !.grpc_status_code = IF IsNone(@) /\ IsSome(other.grpc_status_code)
                                     THEN other.grpc_status_code ELSE @,
                !.custom_exception = swap_if(@, IsNone(@), other.custom_exception),
                !.custom_result = swap_if(@, IsNone(@), other.custom_result),
                !.resp_content_length = IF IsNone(@) THEN other.resp_content_length ELSE @,
                !.is_resp_end = IF other.is_resp_end THEN TRUE ELSE @,
                !.captured_response_byte = @ + other.captured_response_byte]
        sided == IF other.msg_type = "Request" THEN req_side
                 ELSE IF other.msg_type = "Response" THEN resp_side ELSE listed
    IN [sided EXCEPT
           !.proto = IF is_grpc(other) THEN "Grpc" ELSE @,
           !.trace_id = swap_if(@, is_default(@), other.trace_id),
           !.span_id = swap_if(@, is_default(@), other.span_id),
           !.x_request_id_0 = swap_if(@, is_default(@), other.x_request_id_0),
           !.x_request_id_1 = swap_if(@, is_default(@), other.x_request_id_1),
           !.attributes = @ \o other.attributes]

\* MysqlInfo::merge: self after self.merge(other)
MysqlMerge(self, other) ==
    LET versioned ==
            [self EXCEPT
                !.protocol_version = IF @ = 0 THEN other.protocol_version ELSE @,
                !.is_on_blacklist = IF other.is_on_blacklist THEN TRUE ELSE @]
    IN IF other.msg_type = "Request" THEN
           [versioned EXCEPT !.command = other.command, !.context = other.context,
                             !.captured_request_byte = other.captured_request_byte]
       ELSE IF other.msg_type = "Response" THEN
           [versioned EXCEPT
               !.response_code = other.response_code,
               !.affected_rows = other.affected_rows,
               !.error_message = other.error_message,
               !.status = other.status,
               !.error_code = IF IsNone(@) THEN other.error_code ELSE @,
               !.statement_id = IF versioned.command = COM_STMT_PREPARE
                                   /\ other.statement_id > 0
                                THEN other.statement_id ELSE 0,
               !.captured_response_byte = other.captured_response_byte]
       ELSE versioned

\* ------------------------------------------------------------------------
\* Payloads the calls draw from.  Builders for the wire formats:
\* an HTTP/2 frame, HPACK literals, a Go uprobe record, a MySQL packet.
Frame(type, flags, stream_id, body) ==
    <<0, 0, Len(body), type, flags, 0, 0, 0, stream_id>> \o body
HIdx(i) == <<128 + i>>
HLitIdx(name, val) == <<64, Len(name)>> \o name \o <<Len(val)>> \o val
HLitName(i, val) ==
    (IF i < 15 THEN <<i>> ELSE <<15, i - 15>>) \o <<Len(val)>> \o val
HLitNameIdx(i, val) == <<64 + i, Len(val)>> \o val
HLitNew(name, val) == <<0, Len(name)>> \o name \o <<Len(val)>> \o val
Uprobe(stream_id, key, val) ==
    <<0, 0, 0, 0, stream_id, 0, 0, 0, Len(key), 0, 0, 0, Len(val), 0, 0, 0>> \o key \o val
Packet(seq_id, body) == <<Len(body), 0, 0, seq_id>> \o body
Compressed(seq_id, uncompressed_len, body) ==
    <<Len(body), 0, 0, seq_id, uncompressed_len, 0, 0>> \o body

S_BL == <<47, 98, 108>>    \* "/bl"
S_GRPC_PATH == <<47, 112, 46, 83, 47, 109>>    \* "/p.S/m"
S_BL_SVC_PATH == <<47, 98, 108, 46, 83, 47, 109>>    \* "/bl.S/m"
S_BL_SVC == <<98, 108, 46, 83>>    \* "bl.S"
S_5 == <<53>>    \* "5"
S_0 == <<48>>    \* "0"
S_13 == <<49, 51>>    \* "13"
S_200 == <<50, 48, 48>>    \* "200"
S_X == <<120>>    \* "x"
S_Y == <<121>>    \* "y"
SQL_SELECT == <<83, 69, 76, 69, 67, 84, 32, 49>>    \* "SELECT 1"
SQL_BL == <<83, 69, 76, 69, 67, 84, 32, 98, 108>>    \* "SELECT bl"
S_ROOT == <<114, 111, 111, 116>>    \* "root"
S_MSG == <<98, 97, 100>>    \* "bad"
\* "GET / HTTP/1.1\r\nHost: a\r\n\r\n"
P1_GET ==
    <<71, 69, 84, 32, 47, 32, 72, 84, 84, 80, 47, 49, 46, 49, 13, 10, 72, 111, 115, 116, 58, 32, 97, 13, 10, 13, 10>>
\* "GET /bl HTTP/1.1\r\n\r\n"
P1_GET_BL ==
    <<71, 69, 84, 32, 47, 98, 108, 32, 72, 84, 84, 80, 47, 49, 46, 49, 13, 10, 13, 10>>
\* "POST /p.S/m HTTP/1.1\r\nContent-Type: application/grpc\r\n\r\n"
P1_POST_GRPC ==
    <<80, 79, 83, 84, 32, 47, 112, 46, 83, 47, 109, 32, 72, 84, 84, 80, 47, 49, 46, 49, 13, 10, 67, 111, 110, 116, 101, 110, 116, 45, 84, 121, 112, 101, 58, 32, 97, 112, 112, 108, 105, 99, 97, 116, 105, 111, 110, 47, 103, 114, 112, 99, 13, 10, 13, 10>>
\* "LINK / HTTP/1.1\r\n\r\n"
P1_LINK ==
    <<76, 73, 78, 75, 32, 47, 32, 72, 84, 84, 80, 47, 49, 46, 49, 13, 10, 13, 10>>
\* "GET / HTTP/1.1"
P1_NOCRLF ==
    <<71, 69, 84, 32, 47, 32, 72, 84, 84, 80, 47, 49, 46, 49>>
\* "HTTP/1.1 200 OK\r\n\r\n"
P1_200 ==
    <<72, 84, 84, 80, 47, 49, 46, 49, 32, 50, 48, 48, 32, 79, 75, 13, 10, 13, 10>>
\* "HTTP/1.1 404 NF\r\n\r\n"
P1_404 ==
    <<72, 84, 84, 80, 47, 49, 46, 49, 32, 52, 48, 52, 32, 78, 70, 13, 10, 13, 10>>
\* "HTTP/1.1 500 E\r\nContent-Length: 0\r\n\r\n"
P1_500 ==
    <<72, 84, 84, 80, 47, 49, 46, 49, 32, 53, 48, 48, 32, 69, 13, 10, 67, 111, 110, 116, 101, 110, 116, 45, 76, 101, 110, 103, 116, 104, 58, 32, 48, 13, 10, 13, 10>>
\* "HTTP/1.1 100 Continue\r\n\r\n"
P1_100 ==
    <<72, 84, 84, 80, 47, 49, 46, 49, 32, 49, 48, 48, 32, 67, 111, 110, 116, 105, 110, 117, 101, 13, 10, 13, 10>>
\* "HTTP/1.1 200 OK\r\ngrpc-status: 5\r\n\r\n"
P1_GRPC_STATUS ==
    <<72, 84, 84, 80, 47, 49, 46, 49, 32, 50, 48, 48, 32, 79, 75, 13, 10, 103, 114, 112, 99, 45, 115, 116, 97, 116, 117, 115, 58, 32, 53, 13, 10, 13, 10>>
\* "GET / HTTP/1.1\r\nHost: <FF>\r\n\r\n"
P1_BADUTF8 ==
    <<71, 69, 84, 32, 47, 32, 72, 84, 84, 80, 47, 49, 46, 49, 13, 10, 72, 111, 115, 116, 58, 32, 255, 13, 10, 13, 10>>
\* "HTTP/"
P1_SHORT ==
    <<72, 84, 84, 80, 47>>

\* HTTP/2 frames (flags: 4 END_HEADERS, 5 END_HEADERS|END_STREAM, 1 END_STREAM)
H2_GET == Frame(1, 5, 1, HIdx(2) \o HIdx(4))
H2_GET_BL == Frame(1, 5, 1, HIdx(2) \o HLitName(4, S_BL))
H2_NO_METHOD == Frame(1, 5, 1, HIdx(4))
H2_200 == Frame(1, 5, 1, HIdx(8))
H2_500_LEN == Frame(1, 4, 1, HIdx(14) \o HLitName(28, S_0))
H2_GRPC_REQ ==
    Frame(1, 4, 1, HIdx(3) \o HLitName(4, S_GRPC_PATH) \o HLitNameIdx(31, GRPC_CONTENT_TYPE))
H2_GRPC_BL == Frame(1, 4, 1, HIdx(3) \o HLitName(4, S_BL_SVC_PATH))
H2_GRPC_STATUS_5 == Frame(1, 5, 1, HIdx(8) \o HLitNew(KEY_GRPC_STATUS, S_5))
H2_GRPC_STATUS_0 == Frame(1, 5, 1, HLitNew(KEY_GRPC_STATUS, S_0))
H2_GRPC_STATUS_13 == Frame(1, 5, 1, HLitNew(KEY_GRPC_STATUS, S_13))
H2_DATA == Frame(0, 1, 1, <<1, 2, 3>>)
\* a header block that indexes an entry and then refers to dynamic entry 63
H2_DYN == Frame(1, 5, 1, HIdx(2) \o HLitIdx(S_X, S_Y) \o HIdx(63))
\* content-type: application/grpc followed by an invalid index
H2_GRPC_THEN_BAD == Frame(1, 5, 1, HLitName(31, GRPC_CONTENT_TYPE) \o HIdx(0))
\* a request with content-length followed by a request of the same stream
H2_TWO == Frame(1, 4, 1, HIdx(2) \o HLitName(4, S_BL) \o HLitName(28, S_0)) \o H2_GET
\* two responses of one stream, the first with content-length
H2_200_TWO == Frame(1, 4, 1, HIdx(8) \o HLitName(28, S_0)) \o H2_200
H2_PADDED == Frame(1, 13, 1, <<200>> \o HIdx(2))
H2_SETTINGS == Frame(4, 0, 0, <<>>) \o H2_GET
H2_GARBAGE == <<255, 255, 255, 255, 255, 255, 255, 255, 255, 255, 255>>

\* Go uprobe records
UP_METHOD == Uprobe(1, KEY_METHOD, M_GET)
UP_METHOD_BAD == Uprobe(1, KEY_METHOD, S_X)
UP_PATH_BL == Uprobe(1, KEY_PATH, S_BL)
UP_STATUS_200 == Uprobe(1, KEY_STATUS, S_200)
UP_GRPC == Uprobe(1, KEY_CONTENT_TYPE, GRPC_CONTENT_TYPE)
UP_GRPC_STATUS_5 == Uprobe(1, KEY_GRPC_STATUS, S_5)
UP_BAD_LEN == Uprobe(1, KEY_STATUS, S_200) \o <<0>>
UP_SHORT == <<0, 0, 0, 0, 1, 0, 0, 0, 7, 0, 0, 0, 3, 0, 0>>

\* MySQL packets
MY_QUERY == Packet(0, <<COM_QUERY>> \o SQL_SELECT)
MY_QUERY_BL == Packet(0, <<COM_QUERY>> \o SQL_BL)
MY_QUERY_BAD == Packet(0, <<COM_QUERY>> \o S_X)
MY_QUIT == Packet(0, <<COM_QUIT>>)
MY_UNSUPPORTED == Packet(0, <<5>>)
MY_OK == Packet(1, <<0, 1, 0, 2, 0, 0, 0>>)
MY_ERR == Packet(1, <<255, 40, 4, 35, 52, 50, 48, 48, 48>> \o S_MSG)
MY_ERR_CLIENT == Packet(1, <<255, 208, 7>> \o S_MSG)
MY_ERR_BAD_CODE == Packet(1, <<255, 1, 0, 0>>)
MY_EOF == Packet(1, <<254, 0, 0, 2, 0>>)
MY_ROW == Packet(1, <<3, 100, 101, 102>>)
MY_GREETING == Packet(0, <<10, 56, 46, 48, 0, 1, 0, 0, 0, 9>>)
MY_GREETING_SHORT == Packet(0, <<10, 56, 0, 1>>)
MY_LOGIN ==
    Packet(1, <<0, 2>> \o [i \in 1..30 |-> 0] \o S_ROOT \o <<0>>)
MY_SEQ2 == Packet(2, <<1, 2>>)
MY_EMPTY_PKT == Packet(0, <<>>)
MY_TRUNC_QUERY == Take(MY_QUERY, 6)
MY_TRUNC_OK == Take(MY_OK, 4)
MY_COMP_PLAIN == Compressed(0, 0, MY_QUERY)
MY_COMP_ZLIB == Compressed(0, 30, <<120>> \o MY_QUERY)
MY_COMP_ZLIB_OK == Compressed(1, 30, <<120>> \o MY_OK)
MY_COMP_ZLIB_CUT == Compressed(1, 30, <<120, 7, 0>>)
MY_COMP_BAD == Compressed(1, 30, <<1, 2, 3>>)

\* ------------------------------------------------------------------------
\* The calls a parser is driven with.  A call is a payload, the ParseParam it
\* comes with, and grpc_status: the code of the grpc-status header the payload
\* carries (None without one).
MaxCalls == 3     \* calls made on one parser
MaxTable == 2     \* entries of an HPACK dynamic table

Param(dir, ebpf_type) ==
    [dir |-> dir, ebpf_type |-> ebpf_type,
     ebpf_param |-> IF ebpf_type = "GoHttp2Uprobe"
                    THEN Some([is_req_end |-> dir = "c2s", is_resp_end |-> dir = "s2c"])
                    ELSE None,
     has_config |-> TRUE, tcp |-> TRUE, parse_perf |-> TRUE, parse_log |-> TRUE]
Call(payload, dir, ebpf_type) ==
    [payload |-> payload, p |-> Param(dir, ebpf_type), grpc_status |-> None]
GrpcStatusCall(payload, ebpf_type, code) ==
    [payload |-> payload, p |-> Param("s2c", ebpf_type), grpc_status |-> Some(code)]
\* the same call without a parse configuration, over UDP, with perf
\* statistics or log output switched off
Variants(c) ==
    {[c EXCEPT !.p.has_config = FALSE], [c EXCEPT !.p.tcp = FALSE],
     [c EXCEPT !.p.parse_perf = FALSE], [c EXCEPT !.p.parse_log = FALSE]}

Http1Calls ==
    {Call(x, "c2s", "None") : x \in {P1_GET, P1_GET_BL, P1_POST_GRPC, P1_NOCRLF, P1_BADUTF8}}
    \cup {Call(x, "s2c", "None") : x \in {P1_200, P1_404, P1_500, P1_SHORT, <<>>}}
    \cup {GrpcStatusCall(P1_GRPC_STATUS, "None", 5)}
    \cup Variants(Call(P1_GET, "c2s", "None"))
Http2Calls ==
    {Call(x, "c2s", "None") : x \in {H2_GET, H2_GET_BL, H2_NO_METHOD, H2_GRPC_REQ, H2_GRPC_BL,
                                     H2_DYN, H2_TWO, H2_PADDED, H2_SETTINGS, H2_GARBAGE,
                                     H2_DATA, H2_GRPC_THEN_BAD, <<>>}}
    \cup {Call(x, "s2c", "None") : x \in {H2_200, H2_500_LEN, H2_DATA, H2_200_TWO}}
    \cup {GrpcStatusCall(H2_GRPC_STATUS_0, "None", 0), GrpcStatusCall(H2_GRPC_STATUS_5, "None", 5),
          GrpcStatusCall(H2_GRPC_STATUS_13, "None", 13)}
    \cup Variants(Call(H2_GET, "c2s", "None"))
\* a flow the Go uprobe reports: one header per call
UprobeCalls ==
    {Call(x, "c2s", "GoHttp2Uprobe") : x \in {UP_METHOD, UP_METHOD_BAD, UP_PATH_BL, UP_GRPC,
                                              UP_BAD_LEN, UP_SHORT, <<>>}}
    \cup {Call(UP_STATUS_200, "s2c", "GoHttp2Uprobe"),
          GrpcStatusCall(UP_GRPC_STATUS_5, "GoHttp2Uprobe", 5),
          Call(UP_METHOD, "c2s", "GoHttp2UprobeData"), Call(H2_GET, "c2s", "GoHttp2UprobeData")}
    \cup Variants(Call(UP_METHOD, "c2s", "GoHttp2Uprobe"))
MysqlCalls ==
    {Call(x, "c2s", "None") : x \in {MY_QUERY, MY_QUERY_BL, MY_QUERY_BAD, MY_QUIT, MY_UNSUPPORTED,
                                     MY_LOGIN, MY_TRUNC_QUERY, MY_EMPTY_PKT, MY_COMP_PLAIN,
                                     MY_COMP_ZLIB, <<>>}}
    \cup {Call(x, "s2c", "None") : x \in {MY_OK, MY_ERR, MY_ERR_CLIENT, MY_ERR_BAD_CODE, MY_EOF,
                                          MY_ROW, MY_GREETING, MY_GREETING_SHORT, MY_SEQ2,
                                          MY_TRUNC_OK, MY_COMP_ZLIB_OK, MY_COMP_ZLIB_CUT,
                                          MY_COMP_BAD}}
    \cup {Call(MY_QUERY, "c2s", "GoHttp2Uprobe")}
    \cup Variants(Call(MY_QUERY, "c2s", "None"))

\* HTTP/1 status lines "<version> <code> X\r\n\r\n", and the same status
\* codes as the :status header of an HTTP/2 HEADERS frame and of a Go uprobe
\* record.  A call of this family carries line: the version and the three
\* code bytes of its status line (None when it is no HTTP/1 response).
HTTP_V2_0_VERSION == <<72, 84, 84, 80, 47, 50, 46, 48>>    \* "HTTP/2.0"
Code3(n) == <<48 + (n \div 100), 48 + ((n \div 10) % 10), 48 + (n % 10)>>
StatusLine(version, code) == version \o <<32>> \o code \o <<32, 88, 13, 10, 13, 10>>
StatusCall(payload, dir, ebpf_type, line) ==
    [payload |-> payload, p |-> Param(dir, ebpf_type), grpc_status |-> None, line |-> line]
V1Status(version, code) ==
    StatusCall(StatusLine(version, code), "s2c", "None",
               Some([version |-> version, code |-> code]))
StatusCodes == {100, 101, 102, 103, 199, 200, 399, 400, 404, 499, 500, 599}
Http1RespCalls ==
    {V1Status(HTTP_V1_1_VERSION, Code3(n)) : n \in StatusCodes \cup {99, 600, 999}}
    \cup {V1Status(HTTP_V1_1_VERSION, x) : x \in {<<43, 50, 48>>, <<50, 120, 48>>}}
    \cup {V1Status(v, Code3(n)) :
            v \in {HTTP_V1_0_VERSION, HTTP_V0_9_VERSION, HTTP_V2_0_VERSION}, n \in {101, 200}}
    \cup {StatusCall(x, "c2s", "None", None) : x \in {P1_GET, P1_GET_BL}}
Http2RespCalls ==
    {StatusCall(Frame(1, 5, 1, HLitName(8, Code3(n))), "s2c", "None", None) :
        n \in {200, 399, 400, 499, 500, 599}}
    \cup {StatusCall(x, "c2s", "None", None) : x \in {H2_GET, H2_GET_BL}}
UprobeRespCalls ==
    {StatusCall(Uprobe(1, KEY_STATUS, Code3(n)), "s2c", "GoHttp2Uprobe", None) :
        n \in {200, 404, 500}}
    \cup {StatusCall(UP_METHOD, "c2s", "GoHttp2Uprobe", None)}

\* Coalesced HTTP/2 segments: the HEADERS frames of several streams in one
\* payload.  A call of this family carries frames: for every HEADERS frame
\* of the payload its stream id and the offset of its first byte.
StreamGet(stream_id) == Frame(1, 5, stream_id, HIdx(2) \o HLitName(4, S_Y))
StreamStatus(stream_id) == Frame(1, 5, stream_id, HIdx(8))
RECURSIVE Coalesced(_)
Coalesced(frames) == IF frames = <<>> THEN <<>> ELSE frames[1] \o Coalesced(Tail(frames))
RECURSIVE FrameStarts(_, _)
FrameStarts(frames, at) ==
    IF frames = <<>> THEN <<>>
    ELSE <<[stream_id |-> frames[1][9], at |-> at]>>
         \o FrameStarts(Tail(frames), at + Len(frames[1]))
MuxCall(frames, dir) ==
    [payload |-> Coalesced(frames), p |-> Param(dir, "None"), grpc_status |-> None,
     frames |-> FrameStarts(frames, 0)]
StreamIds == {<<1>>, <<1, 3>>, <<3, 1>>, <<1, 3, 5>>, <<1, 3, 1>>}
Http2MuxCalls ==
    {MuxCall([i \in 1..Len(ids) |-> StreamGet(ids[i])], "c2s") : ids \in StreamIds}
    \cup {MuxCall([i \in 1..Len(ids) |-> StreamStatus(ids[i])], "s2c") : ids \in StreamIds}

\* Header blocks that grow the dynamic table, and header blocks that cannot
\* be decoded in any state of the table (index 0).  A call of this family
\* carries undecodable: "first" when the first header block of the payload is
\* such a block (check_payload and parse_payload both decode it), "later" when
\* only the loop of parse_payload reaches it, "none" otherwise.
H2_INSERT == Frame(1, 5, 1, HIdx(2) \o HLitIdx(S_X, S_Y))
H2_200_INSERT == Frame(1, 5, 1, HIdx(8) \o HLitIdx(S_X, S_Y))
H2_BAD_INDEX == Frame(1, 5, 1, HIdx(2) \o HIdx(0))
H2_INSERT_THEN_BAD == Frame(1, 5, 1, HLitIdx(S_X, S_Y) \o HIdx(0))
H2_200_BAD_INDEX == Frame(1, 5, 1, HIdx(8) \o HIdx(0))
H2_LEN_THEN_BAD == Frame(1, 4, 1, HIdx(2) \o HLitName(4, S_Y) \o HLitName(28, S_0)) \o H2_BAD_INDEX
DecCall(payload, dir, undecodable) ==
    [payload |-> payload, p |-> Param(dir, "None"), grpc_status |-> None,
     undecodable |-> undecodable]
Http2DecCalls ==
    {DecCall(x, "c2s", "none") : x \in {H2_GET, H2_INSERT, H2_GRPC_REQ}}
    \cup {DecCall(x, "s2c", "none") : x \in {H2_200, H2_200_INSERT}}
    \cup {DecCall(x, "c2s", "first") : x \in {H2_BAD_INDEX, H2_INSERT_THEN_BAD,
                                            H2_GRPC_THEN_BAD}}
    \cup {DecCall(H2_LEN_THEN_BAD, "c2s", "later"), DecCall(H2_200_BAD_INDEX, "s2c", "first")}
    \cup Variants(DecCall(H2_INSERT, "c2s", "none"))
    \cup Variants(DecCall(H2_BAD_INDEX, "c2s", "first"))

\* Go-uprobe payloads whose header declares key_len and val_len over a body
\* of any length (cut below the 16-byte header when cut is true).  A call of
\* this family carries key_len, val_len and len, the length of the payload.
UprobeRaw(stream_id, key_len, val_len, body) ==
    <<0, 0, 0, 0, stream_id, 0, 0, 0, key_len, 0, 0, 0, val_len, 0, 0, 0>> \o body
LenCall(payload, dir, key_len, val_len) ==
    [payload |-> payload, p |-> Param(dir, "GoHttp2Uprobe"), grpc_status |-> None,
     key_len |-> key_len, val_len |-> val_len, len |-> Len(payload)]
UprobeBodies == {<<KEY_METHOD, M_GET>>, <<KEY_PATH, S_Y>>, <<KEY_STATUS, S_200>>}
UprobeLenCalls ==
    UNION {{LenCall(UprobeRaw(1, Len(b[1]) + dk, Len(b[2]) + dv, b[1] \o b[2] \o extra), dir,
                    Len(b[1]) + dk, Len(b[2]) + dv) :
               dk \in {-1, 0, 1}, dv \in {-1, 0, 1}, extra \in {<<>>, <<0>>}} :
           b \in UprobeBodies, dir \in {"c2s", "s2c"}}
    \cup {LenCall(Take(UP_METHOD, n), "c2s", Len(KEY_METHOD), Len(M_GET)) : n \in {0, 15, 16, 22}}

\* gRPC payloads.  A call of this family carries shape: "data" for a payload
\* of DATA frames only, "headers" for a response that begins with a HEADERS
\* frame carrying :status and no grpc-status, "other" otherwise.
StreamData(flags, stream_id) == Frame(0, flags, stream_id, <<1, 2, 3>>)
GrpcDataPayloads ==
    {StreamData(0, 1), StreamData(1, 1), StreamData(9, 1),
     StreamData(0, 1) \o StreamData(1, 1),
     StreamData(1, 1) \o StreamData(1, 3),
     StreamData(0, 1) \o StreamData(1, 3)}
GrpcHeadersPayloads ==
    {H2_200, Frame(1, 4, 1, HIdx(8)) \o StreamData(1, 1), H2_500_LEN}
ShapeCall(payload, dir, shape) ==
    [payload |-> payload, p |-> Param(dir, "None"), grpc_status |-> None, shape |-> shape]
GrpcDataCalls ==
    {ShapeCall(x, dir, "data") : x \in GrpcDataPayloads, dir \in {"c2s", "s2c"}}
    \cup {ShapeCall(x, "s2c", "headers") : x \in GrpcHeadersPayloads}
    \cup {ShapeCall(H2_GRPC_REQ, "c2s", "other"), ShapeCall(H2_GRPC_STATUS_0, "s2c", "other")}

\* Payloads that carry the other side's fields, and payloads sent in the
\* other direction.
\* "HTTP/1.1 200 OK\r\nHost: a\r\n\r\n"
P1_200_HOST ==
    <<72, 84, 84, 80, 47, 49, 46, 49, 32, 50, 48, 48, 32, 79, 75, 13, 10, 72, 111, 115, 116, 58, 32, 97, 13, 10, 13, 10>>
\* "GET / HTTP/1.1\r\ngrpc-status: 5\r\n\r\n"
P1_GET_GRPC_STATUS ==
    <<71, 69, 84, 32, 47, 32, 72, 84, 84, 80, 47, 49, 46, 49, 13, 10, 103, 114, 112, 99, 45, 115, 116, 97, 116, 117, 115, 58, 32, 53, 13, 10, 13, 10>>
\* HEADERS with :status 200 and :authority x
H2_200_AUTHORITY == Frame(1, 5, 1, HIdx(8) \o HLitName(1, S_X))
\* HEADERS with :method GET, then :status 200
H2_GET_200 == Frame(1, 5, 1, HIdx(2) \o HIdx(8))
Http1SideCalls ==
    {Call(x, "c2s", "None") : x \in {P1_GET, P1_GET_GRPC_STATUS, P1_200}}
    \cup {Call(x, "s2c", "None") : x \in {P1_200, P1_200_HOST, P1_500, P1_GET}}
Http2SideCalls ==
    {Call(x, "c2s", "None") : x \in {H2_GET, H2_200, H2_GET_200}}
    \cup {Call(x, "s2c", "None") : x \in {H2_200, H2_500_LEN, H2_200_AUTHORITY, H2_GET}}

\* Request lines: methods and versions of every kind, a path with a space.
\* "GET / HTTP/0.9\r\n\r\n"
P1_GET_09 ==
    <<71, 69, 84, 32, 47, 32, 72, 84, 84, 80, 47, 48, 46, 57, 13, 10, 13, 10>>
\* "GET / HTTP/1.0\r\n\r\n"
P1_GET_10 ==
    <<71, 69, 84, 32, 47, 32, 72, 84, 84, 80, 47, 49, 46, 48, 13, 10, 13, 10>>
\* "GET /a b HTTP/1.1\r\n\r\n"
P1_GET_SPACE ==
    <<71, 69, 84, 32, 47, 97, 32, 98, 32, 72, 84, 84, 80, 47, 49, 46, 49, 13, 10, 13, 10>>
\* "EXTENSION-METHOD / HTTP/1.1\r\n\r\n"
P1_EXTENSION ==
    <<69, 88, 84, 69, 78, 83, 73, 79, 78, 45, 77, 69, 84, 72, 79, 68, 32, 47, 32, 72, 84, 84, 80, 47, 49, 46, 49, 13, 10, 13, 10>>
\* "BREW / HTTP/1.1\r\n\r\n"
P1_BREW ==
    <<66, 82, 69, 87, 32, 47, 32, 72, 84, 84, 80, 47, 49, 46, 49, 13, 10, 13, 10>>
Http1ReqCalls ==
    {Call(x, "c2s", "None") : x \in {P1_GET, P1_GET_BL, P1_GET_10, P1_GET_09, P1_LINK,
                                     P1_EXTENSION, P1_GET_SPACE, P1_BREW, P1_NOCRLF}}
    \cup {Call(P1_200, "s2c", "None")}

\* LogParserConfig: the blacklist names the resource "/bl" for HTTP, the
\* service "bl.S" for gRPC and the statement "SELECT bl" for MySQL.
HttpBlacklist(resource) ==
    Some([request_resource |-> {resource}, request_type |-> {}, request_domain |-> {},
          endpoint |-> {}])
Config(streaming, decompress) ==
    [grpc_streaming_data_enabled |-> streaming, http_endpoint_disabled |-> FALSE,
     keep_segments |-> 2, mysql_decompress_payload |-> decompress,
     proxy_client |-> <<>>, x_request_id |-> <<>>, trace_types |-> <<>>, span_types |-> <<>>,
     extra_log_fields |-> [http |-> <<>>, http2 |-> <<>>],
     blacklist |-> [Http1 |-> HttpBlacklist(S_BL), Http2 |-> HttpBlacklist(S_BL),
                    Grpc |-> HttpBlacklist(S_BL_SVC),
                    MySQL |-> Some([request_resource |-> {SQL_BL}, request_type |-> {}])]]
Configs == {Config(b, b) : b \in BOOLEAN}

\* ------------------------------------------------------------------------
\* The state: one parser of one flow.
\*   kind   the constructor the parser came from (get_parser); "Uprobe" is
\*          the HTTP/2 parser of a flow the Go uprobe reports, and the
\*          "...Resp" kinds are the same parsers driven with status codes
\*   cfg    the configuration of the agent
\*   log    the parser (HttpLog or MysqlLog)
\*   cache  the RRT cache entry of the flow
\*   out    the last call and what it returned
\*   hist   what the calls so far should have counted
\* The specifications of the Info records, of on_header and of the header
\* iterator put the object their calls act on in log.
VARIABLES kind, cfg, log, cache, out, hist
vars == <<kind, cfg, log, cache, out, hist>>

Kinds == {"Http1", "Http2", "Grpc", "Uprobe", "MySQL"}
NewLog(k) ==
    CASE k \in {"Http1", "Http1Resp", "Http1Side", "Http1Req"} -> new_v1
      [] k \in {"Http2", "Http2Resp", "Http2Mux", "Http2Dec", "UprobeLen", "Http2Side"}
           -> new_v2(FALSE)
      [] k \in {"GrpcDec", "GrpcData"} -> new_v2(TRUE)
      [] k = "Grpc" -> new_v2(TRUE)
      [] k \in {"Uprobe", "UprobeResp"} -> new_v2(FALSE)
      [] OTHER -> new_mysql
Calls(k) ==
    CASE k = "Http1" -> Http1Calls \cup {GrpcStatusCall(H2_GRPC_STATUS_5, "None", 5)}
      [] k = "MySQL" -> MysqlCalls
      [] k = "Uprobe" -> UprobeCalls
      [] k = "Http1Resp" -> Http1RespCalls
      [] k = "Http2Resp" -> Http2RespCalls
      [] k = "UprobeResp" -> UprobeRespCalls
      [] k = "Http2Mux" -> Http2MuxCalls
      [] k = "UprobeLen" -> UprobeLenCalls
      [] k = "GrpcData" -> GrpcDataCalls
      [] k \in {"Http2Dec", "GrpcDec"} -> Http2DecCalls
      [] k = "Http1Side" -> Http1SideCalls
      [] k = "Http2Side" -> Http2SideCalls
      [] k = "Http1Req" -> Http1ReqCalls
      [] OTHER -> Http2Calls

\* the counters perf_stats() would hand out, zero without an accumulator
Counters(l) == UnwrapOr(l.perf_stats, DefaultPerf)
\* L7ProtocolParserInterface::protocol
protocol(l) == IF kind = "MySQL" THEN "MySQL" ELSE l.proto
TableOf(dec) == UnwrapOr(dec, <<>>)
Tables(l) ==
    IF kind = "MySQL" THEN <<>>
    ELSE <<TableOf(l.http2_req_decoder), TableOf(l.http2_resp_decoder)>>
Fits(l) == \A i \in DOMAIN Tables(l) : Len(Tables(l)[i]) <= MaxTable

NoCall ==
    [op |-> "new", n |-> 0, ret |-> "none", panic |-> FALSE, msgs |-> <<>>,
     grpc_status |-> None]
Hist0 == [pure |-> TRUE, c2s |-> 0, s2c |-> 0, prev_req_bl |-> FALSE, supp |-> "none"]
Impure(h) == [h EXCEPT !.pure = FALSE, !.c2s = 0, !.s2c = 0, !.prev_req_bl = FALSE]

HasBlRequest(msgs) == \E i \in DOMAIN msgs : msgs[i].bl /\ msgs[i].msg_type = "Request"
\* hist after a parse_payload call that returned Ok with the messages msgs
HistAfter(h, l, c, msgs) ==
    LET supp == IF Len(msgs) > 1 THEN "none"
                ELSE IF msgs = <<>> THEN h.supp
                ELSE IF HasBlRequest(msgs) THEN "req"
                ELSE IF h.supp = "req" THEN "resp" ELSE "none"
        m == msgs[1]
    IN IF ~h.pure \/ ~c.p.parse_perf \/ protocol(l) \notin {"Http1", "MySQL"}
       THEN [Impure(h) EXCEPT !.supp = supp]
       ELSE IF msgs = <<>> THEN [h EXCEPT !.supp = supp]
       ELSE IF c.p.dir = "c2s"
       THEN [h EXCEPT !.supp = supp, !.c2s = @ + (IF m.bl THEN 0 ELSE 1), !.prev_req_bl = m.bl]
       ELSE [h EXCEPT !.supp = supp, !.prev_req_bl = FALSE,
                      !.s2c = @ + (IF m.bl \/ h.prev_req_bl THEN 0 ELSE 1)]

Init ==
    /\ kind \in Kinds
    /\ cfg \in Configs
    /\ log = NewLog(kind)
    /\ cache = None
    /\ out = NoCall
    /\ hist = Hist0

\* check_payload(payload, param)
CheckPayload ==
    /\ out.n < MaxCalls
    /\ \E c \in Calls(kind) :
         \E r \in {IF kind = "MySQL" THEN MysqlCheckPayload(log, cfg, c.p, c.payload)
                  ELSE HttpCheckPayload(log, cfg, c.p, c.payload)} :
            /\ Fits(r.log)
            /\ log' = r.log
            /\ out' = [op |-> "check", n |-> out.n + 1,
                       ret |-> IF r.ret THEN "true" ELSE "false", panic |-> r.panic,
                       msgs |-> <<>>, grpc_status |-> c.grpc_status]
    /\ hist' = Impure(hist)
    /\ UNCHANGED <<kind, cfg, cache>>

\* parse_payload(payload, param)
ParsePayload ==
    /\ out.n < MaxCalls
    /\ \E c \in Calls(kind) :
         \E r \in {IF kind = "MySQL" THEN MysqlParsePayload(log, cache, cfg, c.p, c.payload)
                  ELSE HttpParsePayload(log, cache, cfg, c.p, c.payload)} :
            /\ Fits(r.log)
            /\ log' = r.log
            /\ cache' = r.cache
            /\ out' = [op |-> "parse", n |-> out.n + 1, ret |-> r.ret,
                       panic |-> r.panic, msgs |-> r.msgs, grpc_status |-> c.grpc_status]
            /\ hist' = IF r.ret = "Err" THEN Impure(hist) ELSE HistAfter(hist, r.log, c, r.msgs)
    /\ UNCHANGED <<kind, cfg>>

\* perf_stats(): self.perf_stats.take()
PerfStats ==
    /\ out.n < MaxCalls
    /\ log' = [log EXCEPT !.perf_stats = None]
    /\ out' = [NoCall EXCEPT !.op = "perf_stats", !.n = out.n + 1,
                             !.ret = IF IsSome(log.perf_stats) THEN "Some" ELSE "None"]
    /\ hist' = Impure(hist)
    /\ UNCHANGED <<kind, cfg, cache>>

\* reset() of an HttpLog
Reset ==
    /\ out.n < MaxCalls
    /\ kind # "MySQL"
    /\ log' = HttpReset(log)
    /\ out' = [NoCall EXCEPT !.op = "reset", !.n = out.n + 1]
    /\ hist' = Impure(hist)
    /\ UNCHANGED <<kind, cfg, cache>>

Next == CheckPayload \/ ParsePayload \/ PerfStats \/ Reset
Spec == Init /\ [][Next]_vars

\* The same parsers on flows whose server answers with each status code.
RespKinds == {"Http1Resp", "Http2Resp", "UprobeResp"}
RespInit ==
    /\ kind \in RespKinds
    /\ cfg \in Configs
    /\ log = NewLog(kind)
    /\ cache = None
    /\ out = NoCall
    /\ hist = Hist0
RespSpec == RespInit /\ [][Next]_vars

\* The endpoint rules of a configuration: a set of [url_prefix, keep_segments].
\* HttpEndpointTrie::find_matching_rule: keep_segments of the longest
\* url_prefix that is a prefix of the path, the default 2 for a matched rule
\* with keep_segments 0 and when no rule is configured, 0 when rules are
\* configured and none matches.
find_matching_rule(rules, path) ==
    IF rules = {} THEN 2
    ELSE LET matching == {r \in rules : StartsWith(path, r.url_prefix)}
         IN IF matching = {} THEN 0
            ELSE LET best == CHOOSE r \in matching :
                                 \A q \in matching : Len(q.url_prefix) <= Len(r.url_prefix)
                 IN IF best.keep_segments = 0 THEN 2
                    ELSE best.keep_segments

\* handle_endpoint applied to every path of at most MaxPath bytes over
\* "/", ".", "a" and "?", under each of the rule sets.
MaxPath == 6
PathBytes == {47, 46, 97, 63}
Paths == UNION {[1..n -> PathBytes] : n \in 0..MaxPath}
Rule(prefix, keep) == [url_prefix |-> prefix, keep_segments |-> keep]
RuleSets ==
    {{}, {Rule(<<47, 97>>, 1)}, {Rule(<<47, 97>>, 1), Rule(<<47, 97, 47, 97>>, 3)},
     {Rule(<<>>, 3)}, {Rule(<<47, 97>>, 0)}}
EndpointInit ==
    /\ kind = "Endpoint"
    /\ cfg \in RuleSets
    /\ log \in Paths
    /\ cache = None
    /\ out = NoCall
    /\ hist = None
\* handle_endpoint(config, path)
HandleEndpoint ==
    /\ out.op = "new"
    /\ out' = [NoCall EXCEPT !.op = "handle_endpoint", !.n = find_matching_rule(cfg, log),
                             !.ret = handle_endpoint(find_matching_rule(cfg, log), log)]
    /\ UNCHANGED <<kind, cfg, log, cache, hist>>
EndpointNext == HandleEndpoint
EndpointSpec == EndpointInit /\ [][EndpointNext]_vars

\* Parsers on flows whose payloads carry fields of the other side, and an
\* HTTP/1 parser on request lines of every kind.
SideKinds == {"Http1Side", "Http2Side", "Http1Req"}
SideInit ==
    /\ kind \in SideKinds
    /\ cfg \in Configs
    /\ log = NewLog(kind)
    /\ cache = None
    /\ out = NoCall
    /\ hist = Hist0
SideSpec == SideInit /\ [][Next]_vars

\* ------------------------------------------------------------------------
\* platform_synchronizer/linux_process.rs: the os-app tags of a process list.
\* A process is [pid, ppid, os_app_tags], os_app_tags a sequence of [key, value].

\* merge_tag, the parent's tags appended whatever the child holds
RECURSIVE merge_tag_all(_, _)
merge_tag_all(child_tag, parent_tag) ==
    IF parent_tag = <<>> THEN child_tag
    ELSE merge_tag_all(Append(child_tag, Head(parent_tag)), Tail(parent_tag))
\* merge_tag: child_tag after the call
RECURSIVE merge_tag(_, _)
merge_tag(child_tag, parent_tag) ==
    IF parent_tag = <<>> THEN child_tag
    ELSE merge_tag(IF \E i \in DOMAIN child_tag : child_tag[i].key = Head(parent_tag).key
                   THEN child_tag
                   ELSE Append(child_tag, Head(parent_tag)),
                   Tail(parent_tag))

\* pid_map of fill_child_proc_tag_by_parent: the last index (from 1) of the
\* pid in the list, 0 when the list does not hold it
PidMap(procs, pid) ==
    IF \E i \in DOMAIN procs : procs[i].pid = pid
    THEN CHOOSE i \in DOMAIN procs :
             procs[i].pid = pid /\ \A j \in DOMAIN procs : procs[j].pid = pid => j <= i
    ELSE 0

\* the call stack: tag_child_along_parent calls itself once per frame, and a
\* chain of more than MaxStack frames overflows the stack
MaxStack == 8
\* tag_child_along_parent; st = [procs, tagged_pid, overflow], depth the number
\* of frames of the function on the stack
RECURSIVE tag_child_along_parent(_, _, _)
tag_child_along_parent(child_idx, st, depth) ==
    LET proc == st.procs[child_idx]
        parent_idx == PidMap(st.procs, proc.ppid)
        merged(s1) ==
            IF s1.overflow THEN s1
            ELSE [s1 EXCEPT !.procs[child_idx].os_app_tags =
                                merge_tag(@, s1.procs[parent_idx].os_app_tags),
                            !.tagged_pid = @ \cup {proc.pid}]
    IN IF depth > MaxStack THEN [st EXCEPT !.overflow = TRUE]
       ELSE IF proc.ppid = 0 \/ proc.pid \in st.tagged_pid THEN st
       ELSE IF parent_idx = 0 \/ child_idx = parent_idx THEN st
       ELSE merged(tag_child_along_parent(parent_idx, st, depth + 1))

\* fill_child_proc_tag_by_parent: [procs, tagged_pid, overflow] after the call
fill_child_proc_tag_by_parent(procs) ==
    LET RECURSIVE each(_, _)
        each(child_idx, st) ==
            IF child_idx > Len(procs) \/ st.overflow THEN st
            ELSE each(child_idx + 1, tag_child_along_parent(child_idx, st, 1))
    IN each(1, [procs |-> procs, tagged_pid |-> {}, overflow |-> FALSE])

\* Process lists of at most MaxProcs processes with distinct pids in 1..MaxPid,
\* in every order; a parent pid may be 0, a pid of the list or absent from it;
\* a tag's value is the pid of the process it was given to.
MaxProcs == 3
MaxPid == 3
TagKeys == {"a", "b"}
Tag(k, pid) == [key |-> k, value |-> pid]
TagsOf(pid) ==
    {<<>>, <<Tag("a", pid)>>, <<Tag("b", pid)>>, <<Tag("a", pid), Tag("b", pid)>>}
Procs ==
    UNION {{[pid |-> pid, ppid |-> ppid, os_app_tags |-> t] : t \in TagsOf(pid)} :
              pid \in 1..MaxPid, ppid \in 0..(MaxPid + 1)}
ProcLists ==
    UNION {{l \in [1..n -> Procs] : \A i, j \in 1..n : l[i].pid = l[j].pid => i = j} :
              n \in 0..MaxProcs}
TagInit ==
    /\ kind = "Procs"
    /\ cfg = None
    /\ log \in ProcLists
    /\ cache = None
    /\ out = NoCall
    /\ hist = None
\* fill_child_proc_tag_by_parent(&mut procs)
FillChildProcTag ==
    /\ out.op = "new"
    /\ \E r \in {fill_child_proc_tag_by_parent(log)} :
         out' = [NoCall EXCEPT !.op = "fill", !.n = 1, !.ret = r.procs, !.panic = r.overflow]
    /\ UNCHANGED <<kind, cfg, log, cache, hist>>
TagNext == FillChildProcTag
TagSpec == TagInit /\ [][TagNext]_vars

\* perf_stats(): self.perf_stats.take(), without taking
perf_stats_peek(l) == [log |-> l, ret |-> l.perf_stats]
\* perf_stats(): [log, ret], ret the Option returned
perf_stats(l) == [log |-> [l EXCEPT !.perf_stats = None], ret |-> l.perf_stats]

\* Draining: parse_payload and perf_stats calls with perf statistics
\* enabled.  hist records what the calls counted and what the drains gave:
\* counted and drained are <<requests, responses>>.
DrainHist0 == [counted |-> <<0, 0>>, drained |-> <<0, 0>>]
NumCounted(msgs) == Cardinality({i \in DOMAIN msgs : msgs[i].counted})
DrainInit ==
    /\ kind \in Kinds
    /\ cfg \in Configs
    /\ log = NewLog(kind)
    /\ cache = None
    /\ out = NoCall
    /\ hist = DrainHist0
\* parse_payload(payload, param) with param.parse_perf
ParseCounted ==
    /\ out.n < MaxCalls
    /\ \E c \in {x \in Calls(kind) : x.p.parse_perf} :
         \E r \in {IF kind = "MySQL" THEN MysqlParsePayload(log, cache, cfg, c.p, c.payload)
                  ELSE HttpParsePayload(log, cache, cfg, c.p, c.payload)} :
            /\ Fits(r.log)
            /\ log' = r.log
            /\ cache' = r.cache
            /\ out' = [op |-> "parse", n |-> out.n + 1, ret |-> r.ret,
                       panic |-> r.panic, msgs |-> r.msgs, grpc_status |-> c.grpc_status]
            /\ hist' = [hist EXCEPT !.counted =
                            IF c.p.dir = "c2s" THEN <<@[1] + NumCounted(r.msgs), @[2]>>
                            ELSE <<@[1], @[2] + NumCounted(r.msgs)>>]
    /\ UNCHANGED <<kind, cfg>>
\* perf_stats(), its result added to what was drained before
PerfStatsDrained ==
    /\ out.n < MaxCalls
    /\ \E r \in {perf_stats(log)} :
         /\ log' = r.log
         /\ out' = [NoCall EXCEPT !.op = "perf_stats", !.n = out.n + 1,
                                  !.ret = IF IsSome(r.ret) THEN "Some" ELSE "None"]
         /\ hist' = [hist EXCEPT !.drained =
                         <<@[1] + UnwrapOr(r.ret, DefaultPerf).request_count,
                           @[2] + UnwrapOr(r.ret, DefaultPerf).response_count>>]
    /\ UNCHANGED <<kind, cfg, cache>>
DrainNext == ParseCounted \/ PerfStatsDrained
DrainSpec == DrainInit /\ [][DrainNext]_vars

\* The HTTP/2 parsers on flows that carry coalesced streams.
FrameKinds == {"Http2Mux", "Http2Dec", "GrpcDec", "UprobeLen", "GrpcData"}
FrameInit ==
    /\ kind \in FrameKinds
    /\ cfg \in Configs
    /\ log = NewLog(kind)
    /\ cache = None
    /\ out = NoCall
    /\ hist = Hist0
FrameSpec == FrameInit /\ [][Next]_vars

\* ------------------------------------------------------------------------
\* The Info records of one session, merged by the caller of the parser:
\* kind is the record type, cache the fragments of the session, log the
\* accumulated record, out the last merge and its argument, hist the first
\* record and the fragments merged so far.
MaxMerges == 3     \* fragments merged into one record

\* the first record parse_payload yields for a call on the parser l
ParsedInfo(l, streaming, c) ==
    HttpParsePayload(l, None, Config(streaming, FALSE), c.p, c.payload).infos[1]
\* The records of the HTTP/1 messages P1_GET and P1_404
F_GET ==
    [DefaultHttpInfo EXCEPT !.proto = "Http1", !.msg_type = "Request", !.version = "V1_1",
                            !.method = "Get", !.path = <<47>>, !.host = <<97>>,
                            !.endpoint = Some(<<47>>)]
F_404 ==
    [DefaultHttpInfo EXCEPT !.proto = "Http1", !.msg_type = "Response", !.version = "V1_1",
                            !.status_code = 404, !.status = "ClientError"]
\* the response header of a gRPC stream a Go uprobe reports, with streaming
\* enabled: a Session record that ends the response
F_SESSION == ParsedInfo(new_v2(TRUE), TRUE, Call(UP_STATUS_200, "s2c", "GoHttp2Uprobe"))
HttpFrags ==
    {[DefaultHttpInfo EXCEPT !.msg_type = "Request", !.captured_request_byte = 1],
     [F_GET EXCEPT !.captured_request_byte = 2, !.user_agent = Some(S_X),
                   !.referer = Some(S_X), !.req_content_length = Some(1),
                   !.trace_id = PrioField(BASE_FIELD_PRIORITY, S_X),
                   !.client_ip = Some(PrioField(BASE_FIELD_PRIORITY, S_X))],
     [DefaultHttpInfo EXCEPT !.msg_type = "Request", !.path = S_Y, !.host = S_Y,
                   !.method = "Post", !.user_agent = Some(S_Y), !.referer = Some(S_Y),
                   !.endpoint = Some(S_Y), !.req_content_length = Some(2),
                   !.is_req_end = TRUE, !.captured_request_byte = 1,
                   !.trace_id = PrioField(PLUGIN_FIELD_PRIORITY, S_Y),
                   !.client_ip = Some(PrioField(PLUGIN_FIELD_PRIORITY, S_Y)),
                   !.x_request_id_0 = PrioField(BASE_FIELD_PRIORITY + 1, S_Y)],
     [DefaultHttpInfo EXCEPT !.msg_type = "Request", !.path = S_BL,
                   !.captured_request_byte = 2,
                   !.x_request_id_0 = PrioField(BASE_FIELD_PRIORITY, S_X)],
     [DefaultHttpInfo EXCEPT !.msg_type = "Response", !.captured_response_byte = 1],
     [F_404 EXCEPT !.captured_response_byte = 1,
                   !.x_request_id_1 = PrioField(BASE_FIELD_PRIORITY, S_X)],
     [DefaultHttpInfo EXCEPT !.msg_type = "Response", !.status = "ServerError",
                   !.status_code = 500, !.grpc_status_code = Some(13),
                   !.is_resp_end = TRUE, !.captured_response_byte = 2,
                   !.span_id = PrioField(PLUGIN_FIELD_PRIORITY, S_Y)],
     [DefaultHttpInfo EXCEPT !.msg_type = "Response", !.status = "Ok",
                   !.status_code = 200, !.grpc_status_code = Some(0),
                   !.is_resp_end = TRUE, !.captured_response_byte = 2,
                   !.span_id = PrioField(BASE_FIELD_PRIORITY, S_X)],
     F_SESSION}
MysqlFrags ==
    {[DefaultMysqlInfo EXCEPT !.msg_type = "Request", !.command = COM_QUERY,
                   !.context = SQL_SELECT, !.captured_request_byte = 1],
     [DefaultMysqlInfo EXCEPT !.msg_type = "Request", !.command = COM_STMT_PREPARE,
                   !.context = SQL_BL, !.captured_request_byte = 2],
     [DefaultMysqlInfo EXCEPT !.msg_type = "Response", !.status = "Ok",
                   !.affected_rows = 1, !.captured_response_byte = 1],
     [DefaultMysqlInfo EXCEPT !.msg_type = "Response", !.status = "Ok",
                   !.statement_id = 1, !.captured_response_byte = 2],
     [DefaultMysqlInfo EXCEPT !.msg_type = "Response", !.status = "ServerError",
                   !.response_code = MYSQL_RESPONSE_CODE_ERR, !.error_code = Some(1064),
                   !.error_message = S_MSG, !.captured_response_byte = 2],
     [DefaultMysqlInfo EXCEPT !.msg_type = "Response", !.status = "ClientError",
                   !.response_code = MYSQL_RESPONSE_CODE_ERR, !.error_code = Some(2000),
                   !.error_message = S_X, !.captured_response_byte = 1]}

MergeInit ==
    /\ kind \in {"HttpInfo", "MysqlInfo"}
    /\ cfg = Config(FALSE, FALSE)
    /\ cache = (IF kind = "HttpInfo" THEN HttpFrags ELSE MysqlFrags)
    /\ log \in cache
    /\ out = [op |-> "new", n |-> 0, other |-> log]
    /\ hist = [first |-> log, merged |-> <<>>]

\* HttpInfo::merge(other)
MergeHttp ==
    /\ kind = "HttpInfo"
    /\ out.n < MaxMerges
    /\ \E other \in cache :
         /\ log' = HttpMerge(log, other)
         /\ out' = [op |-> "merge", n |-> out.n + 1, other |-> other]
         /\ hist' = [hist EXCEPT !.merged = Append(@, other)]
    /\ UNCHANGED <<kind, cfg, cache>>

\* MysqlInfo::merge(other)
MergeMysql ==
    /\ kind = "MysqlInfo"
    /\ out.n < MaxMerges
    /\ \E other \in cache :
         /\ log' = MysqlMerge(log, other)
         /\ out' = [op |-> "merge", n |-> out.n + 1, other |-> other]
         /\ hist' = [hist EXCEPT !.merged = Append(@, other)]
    /\ UNCHANGED <<kind, cfg, cache>>

MergeNext == MergeHttp \/ MergeMysql
MergeSpec == MergeInit /\ [][MergeNext]_vars

\* ------------------------------------------------------------------------
\* The headers of one message: successive on_header calls on one HttpInfo.
\* log is [info, proto, dir]: the record under construction, the protocol of
\* the parser and the direction of the message, which every on_header call of
\* the message carries.
MaxHeaders == 3
H_B3 == <<98>>
H_B3SPAN == <<97>>
H_TRACEPARENT == <<116>>
H_SW8 == <<119>>
H_REQ == <<114, 45, 105>>
H_REQ_UPPER == <<82, 45, 73>>
H_FORWARDED == <<102>>
H_CLIENT == <<99>>
V_TRACEPARENT == <<48, 45, 118, 45, 117>>
V_ID == <<118>>
V_IP == <<117>>
V_BAD == <<255>>

\* L7LogDynamicConfig::new(proxy_client, x_request_id, trace_types, span_types,
\* extra_log_fields, ...) on top of the default configuration
HeaderConfig(proxy_client, x_request_id, trace_types, span_types, extra) ==
    [Config(FALSE, FALSE) EXCEPT !.proxy_client = proxy_client,
                                 !.x_request_id = x_request_id,
                                 !.trace_types = trace_types, !.span_types = span_types,
                                 !.extra_log_fields = [http |-> extra, http2 |-> <<>>]]
\* The lists of tests::header_priority
HeaderPriorityConfig ==
    HeaderConfig(<<H_FORWARDED, H_CLIENT>>, <<H_REQ_UPPER, H_REQ>>,
                 <<TraceType("XB3", H_B3), TraceType("TraceParent", H_TRACEPARENT),
                   TraceType("Sw8", H_SW8)>>,
                 <<TraceType("XB3Span", H_B3SPAN), TraceType("TraceParent", H_TRACEPARENT),
                   TraceType("Sw8", H_SW8)>>, <<>>)
\* Lists that name a header at several positions
RepeatedNamesConfig ==
    HeaderConfig(<<H_CLIENT, H_FORWARDED, H_CLIENT>>, <<H_REQ, H_REQ_UPPER, H_REQ>>,
                 <<TraceType("TraceParent", H_TRACEPARENT),
                   TraceType("Customize", H_TRACEPARENT), TraceType("XB3", H_B3)>>,
                 <<TraceType("TraceParent", H_TRACEPARENT), TraceType("XB3Span", H_B3),
                   TraceType("Customize", H_TRACEPARENT)>>, <<H_REQ_UPPER>>)
HeaderConfigs == {HeaderPriorityConfig, RepeatedNamesConfig}
HeaderKeys ==
    {H_B3, H_B3SPAN, H_TRACEPARENT, H_SW8, H_REQ, H_REQ_UPPER, H_FORWARDED, H_CLIENT,
     KEY_HOST, V_BAD}
HeaderVals == {V_TRACEPARENT, V_ID, V_IP, V_BAD}

HeaderInit ==
    /\ kind = "Header"
    /\ cfg \in HeaderConfigs
    /\ \E proto \in {"Http1", "Http2"}, dir \in {"c2s", "s2c"} :
         log = [info |-> [DefaultHttpInfo EXCEPT !.proto = proto], proto |-> proto, dir |-> dir]
    /\ cache = None
    /\ out = [op |-> "new", n |-> 0, key |-> <<>>, val |-> <<>>]
    /\ hist = [before |-> log.info]

\* HttpLog::on_header(config, key, val, direction, info)
OnHeader ==
    /\ kind = "Header"
    /\ out.n < MaxHeaders
    /\ \E key \in HeaderKeys, val \in HeaderVals :
         /\ \E h \in {on_header(cfg, key, val, log.dir, log.info, log.proto)} :
              log' = [log EXCEPT !.info = h.info, !.proto = h.proto]
         /\ out' = [op |-> "on_header", n |-> out.n + 1, key |-> key, val |-> val]
         /\ hist' = [before |-> log.info]
    /\ UNCHANGED <<kind, cfg, cache>>

HeaderNext == OnHeader
HeaderSpec == HeaderInit /\ [][HeaderNext]_vars

\* ------------------------------------------------------------------------
\* The header lines of one HTTP/1 payload.  kind "Iter" drives
\* parse_v1_headers(payload) with next() until it returns None, as the for
\* loop of parse_http_v1 does: log is [buf, done], the iterator's slice and
\* whether None has been returned.  kind "V1" applies parse_http_v1 to a
\* request made of the same lines: log is its result.
\* hist is [payload, lines, yielded]: the payload, the CRLF-terminated lines
\* it was built from and the lines next() has returned.
MaxLines == 3
CRLF == <<13, 10>>
L_HOST == <<72, 111, 115, 116, 58, 32, 97>>    \* "Host: a"
L_LENGTH == <<67, 111, 110, 116, 101, 110, 116, 45, 76, 101, 110, 103, 116, 104, 58, 32, 53>>    \* "Content-Length: 5"
L_TRACE == <<66, 58, 32, 118>>    \* "B: v", a trace id of HeaderPriorityConfig
L_CORRUPT == <<120, 58, 32, 255>>    \* "x: <FF>"
L_UNTERMINATED == <<72, 111, 115, 116, 58, 32, 121>>    \* "Host: y"
L_BODY == <<72, 111, 115, 116, 58, 32, 122, 13, 10>>    \* "Host: z\r\n"
HeaderLines == {L_HOST, L_LENGTH, L_TRACE, L_CORRUPT}
LineSeqs == UNION {[1..n -> HeaderLines] : n \in 0..MaxLines}
RECURSIVE Terminated(_)
Terminated(lines) == IF lines = <<>> THEN <<>> ELSE lines[1] \o CRLF \o Terminated(Tail(lines))
\* What follows the lines: the blank line, the blank line and a body, the end
\* of the payload, a line cut off by the capture length
LineTails == {CRLF, CRLF \o L_BODY, <<>>, L_UNTERMINATED}

LineInit ==
    /\ kind \in {"Iter", "V1"}
    /\ cfg = HeaderPriorityConfig
    /\ \E lines \in LineSeqs, tail \in LineTails :
         LET block == Terminated(lines) \o tail
             payload == IF kind = "V1" THEN P1_NOCRLF \o CRLF \o block ELSE block
         IN /\ hist = [payload |-> payload, lines |-> lines, yielded |-> <<>>]
            /\ log = [buf |-> payload, done |-> FALSE]
    /\ cache = None
    /\ out = [op |-> "new", n |-> 0, line |-> None]

\* V1HeaderIterator::next
IterNext ==
    /\ kind = "Iter"
    /\ ~log.done
    /\ \E nx \in {V1Next(log.buf)} :
         /\ log' = [buf |-> nx.rest, done |-> IsNone(nx.line)]
         /\ out' = [op |-> "next", n |-> out.n + 1, line |-> nx.line]
         /\ hist' = [hist EXCEPT !.yielded = IF IsSome(nx.line) THEN Append(@, nx.line[1]) ELSE @]
    /\ UNCHANGED <<kind, cfg, cache>>

\* HttpLog::new_v1().parse_http_v1(payload, param, info) of a request
ParseV1 ==
    /\ kind = "V1"
    /\ out.op = "new"
    /\ \E r \in {parse_http_v1(cfg, "c2s", hist.payload,
                               [DefaultHttpInfo EXCEPT !.proto = "Http1"], "Http1")} :
         log' = r
    /\ out' = [op |-> "parse_http_v1", n |-> 1, line |-> None]
    /\ UNCHANGED <<kind, cfg, cache, hist>>

LineNext == IterNext \/ ParseV1
LineSpec == LineInit /\ [][LineNext]_vars

\* ------------------------------------------------------------------------
\* Properties.

\* check_payload of the parser's kind, as the CheckPayload action applies it
Check(l, c) ==
    IF kind = "MySQL" THEN MysqlCheckPayload(l, cfg, c.p, c.payload)
    ELSE HttpCheckPayload(l, cfg, c.p, c.payload)

C2_CheckIdempotent ==
    \A c \in Calls(kind) : Check(Check(log, c).log, c).ret = Check(log, c).ret

\* C3: a check_payload call leaves what perf_stats() would return unchanged:
\* an absent accumulator stays absent, counters keep their values.
C3_CheckLeavesPerfStats == [][out'.op = "check" => log'.perf_stats = log.perf_stats]_vars

\* the per-connection state C4 lists
Connection(l) ==
    IF kind = "MySQL"
    THEN <<l.has_compressed_header, l.has_request, l.has_login, l.last_is_on_blacklist>>
    ELSE <<l.proto, TableOf(l.http2_req_decoder), TableOf(l.http2_resp_decoder),
           l.last_is_on_blacklist>>
\* C4: a check_payload call leaves the detected protocol, both HPACK dynamic
\* tables, the MySQL compression classification, the MySQL latches and the
\* last-blacklisted flag unchanged.
C4_CheckLeavesConnection == [][out'.op = "check" => Connection(log') = Connection(log)]_vars

\* C5: after successful parse_payload calls only, on an HTTP/1 or MySQL parser
\* with perf enabled, request_count is the number of client-to-server messages
\* and response_count the number of server-to-client messages that are neither
\* blacklisted nor the counterpart of a blacklisted message.
C5_CountedExactlyOnce ==
    kind \in {"Http1", "MySQL"} /\ hist.pure =>
        /\ Counters(log).request_count = hist.c2s
        /\ Counters(log).response_count = hist.s2c

\* a parse_payload step that succeeds with exactly one message
OneMessage == out'.op = "parse" /\ out'.ret # "Err" /\ Len(out'.msgs) = 1
\* C6: the call that parses a blacklisted request changes no counter, neither
\* does the next successful parse_payload call, and the call after that is
\* counted again (stated for calls that carry one message).
C6_SuppressionCarriesOnce ==
    [][/\ OneMessage /\ HasBlRequest(out'.msgs) => Counters(log') = Counters(log)
       /\ OneMessage /\ hist.supp = "req" => Counters(log') = Counters(log)
       /\ OneMessage /\ hist.supp = "resp" /\ ~out'.msgs[1].bl /\ IsSome(log'.perf_stats)
              => Counters(log') # Counters(log)]_vars

\* C7: a parse_payload call that returns an error changes no perf counter.
C7_ErrorCountsNothing ==
    [][out'.op = "parse" /\ out'.ret = "Err" => Counters(log') = Counters(log)]_vars

\* the RRT aggregate of a parser
Rrt(l) == <<Counters(l).rrt_count, Counters(l).rrt_sum, Counters(l).rrt_max>>
\* C8: a parse_payload call whose messages are all Session-type or suppressed
\* by the blacklist gate leaves rrt_count, rrt_sum and rrt_max unchanged.
C8_RrtOnlyForCountedNonSession ==
    [][out'.op = "parse"
       /\ (\A i \in DOMAIN out'.msgs :
              out'.msgs[i].msg_type = "Session" \/ ~out'.msgs[i].counted)
       => Rrt(log') = Rrt(log)]_vars

\* C9: once protocol() is Grpc it is Grpc after every later check_payload,
\* parse_payload, perf_stats and reset call.
C9_GrpcPromotionOneWay ==
    [][kind # "MySQL" /\ protocol(log) = "Grpc" => protocol(log') = "Grpc"]_vars
\* a parser created as HTTP/2, promoted by a content-type header, then reset
C9_Witness == kind = "Http2" /\ log.proto = "Grpc" /\ out.op = "reset"

\* the outcome C10 states for a grpc-status code
GrpcOutcome(c) ==
    IF c = 0 THEN "Ok"
    ELSE IF c \in {1, 3, 5, 6, 7, 9, 11, 16} THEN "ClientError" ELSE "ServerError"
\* C10: a server-to-client, counted message that carries grpc-status c is a
\* Response whose status is the outcome of c, with err_client_count or
\* err_server_count incremented by one accordingly, for either setting of the
\* gRPC streaming flag.
C10_GrpcStatusMapping ==
    [][OneMessage /\ IsSome(out'.grpc_status) /\ out'.msgs[1].counted /\ IsSome(log.perf_stats)
       => /\ out'.msgs[1].msg_type = "Response"
          /\ out'.msgs[1].status = GrpcOutcome(out'.grpc_status[1])
          /\ Counters(log').err_client_count = Counters(log).err_client_count
                 + (IF GrpcOutcome(out'.grpc_status[1]) = "ClientError" THEN 1 ELSE 0)
          /\ Counters(log').err_server_count = Counters(log).err_server_count
                 + (IF GrpcOutcome(out'.grpc_status[1]) = "ServerError" THEN 1 ELSE 0)]_vars

\* ------------------------------------------------------------------------
\* HTTP status codes (RespSpec).

\* what the status line of a call says, read off its bytes
LineVersionOk(l) == l.version \in {HTTP_V1_0_VERSION, HTTP_V1_1_VERSION}
LineCodeOk(l) ==
    /\ \A i \in 1..3 : IsDigit(l.code[i])
    /\ DecValue(l.code) >= 100 /\ DecValue(l.code) <= 599
LineFinal(l) == LineVersionOk(l) /\ LineCodeOk(l) /\ DecValue(l.code) \notin {100, 102, 103}

\* C11: an HTTP/1 response line is accepted only with version HTTP/1.0 or
\* HTTP/1.1 and a three-digit status code in [100,599]; 100, 102 and 103 make
\* parse_payload fail with no record and no counter change, and every other
\* code of the range (101 included) yields a Response record with that code.
\* Stated in every reachable parser state for every status line of the flow.
C11_StatusLine ==
    kind = "Http1Resp" =>
        \A c \in {x \in Http1RespCalls : IsSome(x.line)} :
            LET r == HttpParsePayload(log, cache, cfg, c.p, c.payload) IN
            IF LineFinal(c.line[1])
            THEN /\ r.ret = "Single"
                 /\ r.infos[1].msg_type = "Response"
                 /\ r.infos[1].status_code = DecValue(c.line[1].code)
            ELSE /\ r.ret = "Err" /\ r.infos = <<>>
                 /\ Counters(r.log) = Counters(log)
\* a 101 response recorded as the second call on a parser
C11_Witness ==
    /\ kind = "Http1Resp" /\ out.op = "parse" /\ out.ret = "Single"
    /\ out.msgs[1].msg_type = "Response" /\ out.msgs[1].status_code = 101
    /\ hist.pure = FALSE /\ out.n = 2 /\ Counters(log).response_count = 1

HttpOutcome(c) ==
    IF c >= 400 /\ c <= 499 THEN "ClientError"
    ELSE IF c >= 500 /\ c <= 599 THEN "ServerError" ELSE "Ok"
\* C12: a counted HTTP response with status code c and no grpc-status gets
\* status ClientError and err_client_count + 1 for c in 400..499, ServerError
\* and err_server_count + 1 for c in 500..599, and Ok with both error
\* counters unchanged otherwise; a request changes no error counter.
C12_StatusCodeMapping ==
    [][/\ OneMessage /\ out'.msgs[1].msg_type = "Response" /\ out'.msgs[1].counted
          /\ IsNone(out'.grpc_status) /\ IsSome(log'.perf_stats)
          => /\ out'.msgs[1].status = HttpOutcome(out'.msgs[1].status_code)
             /\ Counters(log').err_client_count = Counters(log).err_client_count
                  + (IF HttpOutcome(out'.msgs[1].status_code) = "ClientError" THEN 1 ELSE 0)
             /\ Counters(log').err_server_count = Counters(log).err_server_count
                  + (IF HttpOutcome(out'.msgs[1].status_code) = "ServerError" THEN 1 ELSE 0)
       /\ OneMessage /\ out'.msgs[1].msg_type = "Request"
          => /\ Counters(log').err_client_count = Counters(log).err_client_count
             /\ Counters(log').err_server_count = Counters(log).err_server_count]_vars
\* a second client error counted on an HTTP/2 flow
C12_Witness ==
    /\ kind = "Http2Resp" /\ out.op = "parse" /\ out.msgs # <<>>
    /\ out.msgs[1].status = "ClientError" /\ out.msgs[1].status_code = 499
    /\ Counters(log).err_client_count = 2

\* ------------------------------------------------------------------------
\* Merge (MergeSpec).

Merged == out'.op = "merge"
\* the value first-writer-wins leaves in a field: mine when populated
FirstWriter(mine, populated, theirs) == IF populated THEN mine ELSE theirs

\* C13: HttpInfo::merge is first-writer-wins for the scalar identity fields:
\* after A.merge(B) with B a request fragment, each of path, host, method,
\* user_agent, referer, endpoint and request content length is A's old value
\* if that was populated and B's value otherwise.
C13_FirstWriterWins ==
    [][Merged /\ kind = "HttpInfo" /\ out'.other.msg_type = "Request" =>
          /\ log'.path = FirstWriter(log.path, log.path # <<>>, out'.other.path)
          /\ log'.host = FirstWriter(log.host, log.host # <<>>, out'.other.host)
          /\ log'.method = FirstWriter(log.method, log.method # "None", out'.other.method)
          /\ log'.user_agent = FirstWriter(log.user_agent, IsSome(log.user_agent),
                                           out'.other.user_agent)
          /\ log'.referer = FirstWriter(log.referer, IsSome(log.referer), out'.other.referer)
          /\ log'.endpoint = FirstWriter(log.endpoint, IsSome(log.endpoint),
                                         out'.other.endpoint)
          /\ log'.req_content_length =
                 FirstWriter(log.req_content_length, IsSome(log.req_content_length),
                             out'.other.req_content_length)]_vars
\* a populated request fragment merged into a record that took its host
\* from an earlier fragment: the host stays
C13_Witness ==
    /\ kind = "HttpInfo" /\ out.op = "merge" /\ out.n = 2
    /\ out.other.msg_type = "Request" /\ out.other.host = S_Y /\ log.host = <<97>>
    /\ hist.first.host = <<>> /\ log.referer = Some(S_X)

\* C14: status and error-code fields are latest-wins: a response fragment B
\* with a non-default status, status code or gRPC status code (MysqlInfo:
\* status, response_code, error_code) hands it to the accumulated record even
\* if that already held a non-default one.
C14_LatestStatusWins ==
    [][Merged /\ out'.other.msg_type = "Response" =>
          IF kind = "HttpInfo"
          THEN /\ out'.other.status # DefaultHttpInfo.status => log'.status = out'.other.status
               /\ out'.other.status_code # 0 => log'.status_code = out'.other.status_code
               /\ IsSome(out'.other.grpc_status_code)
                     => log'.grpc_status_code = out'.other.grpc_status_code
          ELSE /\ out'.other.status # DefaultMysqlInfo.status => log'.status = out'.other.status
               /\ out'.other.response_code # 0 => log'.response_code = out'.other.response_code
               /\ IsSome(out'.other.error_code) => log'.error_code = out'.other.error_code]_vars

\* C15: captured byte counts are additive under merge, for HttpInfo and
\* MysqlInfo: a request fragment adds its captured_request_byte, a response
\* fragment its captured_response_byte, and the other side's count stays.
C15_CapturedBytesAdditive ==
    [][/\ Merged /\ out'.other.msg_type = "Request" =>
            /\ log'.captured_request_byte =
                   log.captured_request_byte + out'.other.captured_request_byte
            /\ log'.captured_response_byte = log.captured_response_byte
       /\ Merged /\ out'.other.msg_type = "Response" =>
            /\ log'.captured_response_byte =
                   log.captured_response_byte + out'.other.captured_response_byte
            /\ log'.captured_request_byte = log.captured_request_byte]_vars

IsRequestSide(f) == f.msg_type = "Request"
IsOtherSide(f) == f.msg_type # "Request"
RECURSIVE MergeAll(_, _)
MergeAll(a, frags) ==
    IF frags = <<>> THEN a ELSE MergeAll(HttpMerge(a, Head(frags)), Tail(frags))
Additive(i) ==
    <<i.captured_request_byte, i.captured_response_byte, i.is_req_end, i.is_resp_end>>
\* C16: merging the fragments of a session into the first one gives the same
\* captured byte counts and end flags in every interleaving that keeps the
\* order within the request side and within the response side (here: the
\* same as merging the request side first), and an end flag that is true in
\* the accumulated record or in a merged fragment is true in the result.
C16_MergeOrderAndStickyEnd ==
    [][Merged /\ kind = "HttpInfo" =>
          /\ Additive(log') =
                 Additive(MergeAll(hist'.first, SelectSeq(hist'.merged, IsRequestSide)
                                                \o SelectSeq(hist'.merged, IsOtherSide)))
          /\ log.is_req_end \/ out'.other.is_req_end => log'.is_req_end
          /\ log.is_resp_end \/ out'.other.is_resp_end => log'.is_resp_end]_vars

\* the field precedence leaves: theirs only when its priority number is lower
Precedence(mine, theirs) == IF theirs.prio < mine.prio THEN theirs ELSE mine
\* C17: merge resolves the priority-tagged fields by precedence: trace_id,
\* span_id, x_request_id_0/1 and client_ip hold, after A.merge(B), the value
\* with the lower priority number, and A's value on a tie.
C17_MergeByPrecedence ==
    [][Merged /\ kind = "HttpInfo" =>
          /\ log'.trace_id = Precedence(log.trace_id, out'.other.trace_id)
          /\ log'.span_id = Precedence(log.span_id, out'.other.span_id)
          /\ log'.x_request_id_0 = Precedence(log.x_request_id_0, out'.other.x_request_id_0)
          /\ log'.x_request_id_1 = Precedence(log.x_request_id_1, out'.other.x_request_id_1)
          /\ log'.client_ip =
                 IF IsNone(out'.other.client_ip) THEN log.client_ip
                 ELSE IF IsNone(log.client_ip) THEN out'.other.client_ip
                 ELSE Some(Precedence(log.client_ip[1], out'.other.client_ip[1]))]_vars
\* The list positions (0-based) whose matcher accepts the header and decodes
\* its value; a header whose name is not ASCII or whose value is not UTF-8
\* decodes nowhere.
Readable(key, val) == IsUtf8(key) /\ IsAscii(key) /\ IsUtf8(val)
TracePositions(types, key, val) ==
    {i \in 0..(Len(types) - 1) : /\ Readable(key, val)
                                 /\ TraceCheck(types[i + 1], key)
                                 /\ IsSome(decode_trace_id(types[i + 1], val))}
SpanPositions(types, key, val) ==
    {i \in 0..(Len(types) - 1) : /\ Readable(key, val)
                                 /\ TraceCheck(types[i + 1], key)
                                 /\ IsSome(decode_span_id(types[i + 1], val))}
NamePositions(names, key, val) ==
    {i \in 0..(Len(names) - 1) : Readable(key, val) /\ names[i + 1] = key}
Lowest(positions) ==
    IF positions = {} THEN -1 ELSE CHOOSE i \in positions : \A j \in positions : i <= j
\* The field after a header matched at position j (j = -1: at none) with the
\* decoded value id: replaced if j takes precedence over the stored priority,
\* unchanged if j is the stored position or a later one.
ByPosition(field, j, id) ==
    IF j >= 0 /\ j + BASE_FIELD_PRIORITY < field.prio
    THEN PrioField(j + BASE_FIELD_PRIORITY, id) ELSE field
StoredPrio(client_ip) == IF IsSome(client_ip) THEN client_ip[1].prio ELSE U8_MAX

\* C18: within one Info, a field set by the matcher at list position k is left
\* unchanged by a later on_header call matching position k or a later one and
\* is replaced by a later call that matches an earlier position and decodes;
\* the stored priority number never increases.  For trace_id, span_id, the
\* x-request-id of the message's direction and client_ip.
C18_HeaderPriorityMonotone ==
    [][out'.op = "on_header" =>
         LET key == out'.key
             val == out'.val
             old == log.info
             new == log'.info
             t == Lowest(TracePositions(cfg.trace_types, key, val))
             sp == Lowest(SpanPositions(cfg.span_types, key, val))
             x == Lowest(NamePositions(cfg.x_request_id, key, val))
             pc == Lowest(NamePositions(cfg.proxy_client, key, val))
             id_of(types, j) == IF j < 0 THEN <<>> ELSE decode_trace_id(types[j + 1], val)[1]
             span_of(types, j) == IF j < 0 THEN <<>> ELSE decode_span_id(types[j + 1], val)[1]
         IN /\ new.trace_id = ByPosition(old.trace_id, t, id_of(cfg.trace_types, t))
            /\ new.span_id = ByPosition(old.span_id, sp, span_of(cfg.span_types, sp))
            /\ IF log.dir = "c2s"
               THEN /\ new.x_request_id_0 = ByPosition(old.x_request_id_0, x, val)
                    /\ new.x_request_id_1 = old.x_request_id_1
                    /\ IF pc >= 0 /\ pc + BASE_FIELD_PRIORITY < StoredPrio(old.client_ip)
                       THEN new.client_ip = Some(PrioField(pc + BASE_FIELD_PRIORITY, val))
                       ELSE new.client_ip = old.client_ip
               ELSE /\ new.x_request_id_1 = ByPosition(old.x_request_id_1, x, val)
                    /\ new.x_request_id_0 = old.x_request_id_0
                    /\ new.client_ip = old.client_ip
            /\ new.trace_id.prio <= old.trace_id.prio
            /\ new.span_id.prio <= old.span_id.prio
            /\ new.x_request_id_0.prio <= old.x_request_id_0.prio
            /\ new.x_request_id_1.prio <= old.x_request_id_1.prio
            /\ StoredPrio(new.client_ip) <= StoredPrio(old.client_ip)]_vars
\* the third header of a message replaces a trace id stored from list
\* position 1 by the one of position 0, the client ip of position 0 having
\* survived a header of position 1
C18_Witness ==
    /\ kind = "Header" /\ out.op = "on_header" /\ out.n = 3
    /\ hist.before.trace_id.prio = BASE_FIELD_PRIORITY + 1
    /\ log.info.trace_id.prio = BASE_FIELD_PRIORITY
    /\ log.info.trace_id.field # hist.before.trace_id.field
    /\ IsSome(log.info.client_ip) /\ log.info.client_ip[1].prio = BASE_FIELD_PRIORITY

\* C19: an HTTP/1 header line that is not UTF-8 does not stop the header
\* scan: the request still parses and every well-formed header line of the
\* header block is processed, the lines after the corrupted one included
\* (host, content length and trace id are those of the lines).
C19_CorruptLineSkipped ==
    (kind = "V1" /\ out.op = "parse_http_v1") =>
        LET has(line) == \E i \in 1..Len(hist.lines) : hist.lines[i] = line IN
        /\ log.ok
        /\ has(L_HOST) => log.info.host = <<97>>
        /\ has(L_LENGTH) => log.info.req_content_length = Some(5)
        /\ has(L_TRACE) => log.info.trace_id = PrioField(BASE_FIELD_PRIORITY, V_ID)

\* The pieces of s between occurrences of CRLF; every piece but the last is
\* a CRLF-terminated line
RECURSIVE SplitCrlf(_)
SplitCrlf(s) ==
    LET i == FindCrlf(s, 0) IN
    IF i < 0 THEN <<s>> ELSE <<Take(s, i)>> \o SplitCrlf(Drop(s, i + 2))
RECURSIVE UntilEmpty(_)
UntilEmpty(lines) ==
    IF lines = <<>> \/ lines[1] = <<>> THEN <<>> ELSE <<lines[1]>> \o UntilEmpty(Tail(lines))
\* The CRLF-terminated lines of the payload before its first empty line; a
\* line that is not UTF-8 is no &str and is left out.
HeaderLinesOf(payload) ==
    LET pieces == SplitCrlf(payload) IN
    SelectSeq(UntilEmpty(Take(pieces, Len(pieces) - 1)), IsUtf8)
IsPrefix(s, t) == Len(s) <= Len(t) /\ s = Take(t, Len(s))

\* C20: parse_v1_headers yields, in order, exactly the CRLF-terminated lines
\* before the first empty line and then None: nothing after the blank line,
\* no unterminated line, nothing from a payload without CRLF or one that
\* begins with CRLF.
C20_YieldsHeaderLines ==
    kind = "Iter" =>
        /\ IsPrefix(hist.yielded, HeaderLinesOf(hist.payload))
        /\ log.done => hist.yielded = HeaderLinesOf(hist.payload)

\* ------------------------------------------------------------------------
\* HTTP/2 framing (FrameSpec).

\* C21: stream demultiplexing loses no frame: a coalesced segment yields one
\* record per HEADERS frame, in order, each with the stream id of its frame
\* and located at the first byte of its frame (the walker hands back the
\* offset of the first frame of another stream and the loop of parse_payload
\* resumes there).  Stated in every reachable parser state.
C21_EveryStreamParsed ==
    kind = "Http2Mux" =>
        \A c \in Http2MuxCalls :
            LET r == HttpParsePayload(log, cache, cfg, c.p, c.payload) IN
            /\ Len(r.infos) = Len(c.frames)
            /\ \A i \in 1..Len(c.frames) :
                 /\ r.infos[i].stream_id = Some(c.frames[i].stream_id)
                 /\ r.infos[i].headers_offset = Some(c.frames[i].at)

\* The decoders of l1 are those of l0: both are present, and a decoder that
\* l0 held is still the one l1 holds, its dynamic table carried over (the
\* entries of before are the oldest entries of after).
IsSuffix(s, t) == Len(s) <= Len(t) /\ s = Drop(t, Len(t) - Len(s))
CarriedOver(before, after) ==
    /\ IsSome(after)
    /\ IsSome(before) => IsSuffix(before[1], after[1])
DecodersOwned(l0, l1) ==
    /\ CarriedOver(l0.http2_req_decoder, l1.http2_req_decoder)
    /\ CarriedOver(l0.http2_resp_decoder, l1.http2_resp_decoder)

\* C22: decoder ownership: after every check_payload and every parse_payload
\* call on an HTTP/2 or gRPC parser, both decoders are present and are the
\* ones of before the call, and a call whose header decoding fails fails.
\* Stated in every reachable parser state.
C22_DecoderOwnership ==
    kind \in {"Http2Dec", "GrpcDec"} =>
        \A c \in Http2DecCalls :
            LET k == HttpCheckPayload(log, cfg, c.p, c.payload)
                r == HttpParsePayload(log, cache, cfg, c.p, c.payload)
            IN /\ DecodersOwned(log, k.log)
               /\ DecodersOwned(log, r.log)
               /\ c.undecodable = "first" => ~k.ret
               /\ c.undecodable # "none" => r.ret = "Err"

\* The parts of C22 taken apart: the decoders of a call that carries a
\* configuration (and, for check_payload, is a TCP call) ...
C22_OwnedWhenConfigured ==
    kind \in {"Http2Dec", "GrpcDec"} =>
        \A c \in Http2DecCalls :
            c.p.has_config =>
                /\ c.p.tcp => DecodersOwned(log, HttpCheckPayload(log, cfg, c.p, c.payload).log)
                /\ DecodersOwned(log, HttpParsePayload(log, cache, cfg, c.p, c.payload).log)
\* ... and the result of a call that meets an undecodable block.
C22_DecodeFailureFails ==
    kind \in {"Http2Dec", "GrpcDec"} =>
        \A c \in Http2DecCalls :
            /\ c.undecodable = "first" => ~HttpCheckPayload(log, cfg, c.p, c.payload).ret
            /\ c.undecodable # "none" =>
                   HttpParsePayload(log, cache, cfg, c.p, c.payload).ret = "Err"

\* the payload is as long as its header declares
Framed(c) ==
    /\ c.len >= HTTPV2_CUSTOM_DATA_MIN_LENGTH
    /\ c.key_len + c.val_len + HTTPV2_CUSTOM_DATA_MIN_LENGTH = c.len

\* C23: Go-uprobe framing is length-strict: a payload is accepted (by
\* check_http2_go_uprobe, by check_payload, by parse_payload) only if it holds
\* the 16-byte header and is exactly as long as the header declares; every
\* other payload is rejected with an error, and no Info comes out of it or is
\* counted.  Stated in every reachable parser state.
C23_LengthStrict ==
    kind = "UprobeLen" =>
        \A c \in UprobeLenCalls :
            LET u == check_http2_go_uprobe(cfg, c.p.dir, c.p.ebpf_type, c.p.ebpf_param,
                                           c.payload, DefaultHttpInfo, log.proto)
                k == HttpCheckPayload(log, cfg, c.p, c.payload)
                r == HttpParsePayload(log, cache, cfg, c.p, c.payload)
            IN /\ (u.ok \/ k.ret \/ r.ret # "Err") => Framed(c)
               /\ ~Framed(c) => /\ ~u.ok /\ ~u.panic
                                /\ ~k.ret
                                /\ r.ret = "Err" /\ r.infos = <<>> /\ r.msgs = <<>>
\* a parser that has taken a framed payload has then rejected a payload
C23_Witness ==
    /\ kind = "UprobeLen"
    /\ out.op = "parse" /\ out.ret = "Err" /\ out.msgs = <<>>
    /\ IsSome(log.perf_stats) /\ log.perf_stats[1].request_count > 0
    /\ \E c \in UprobeLenCalls :
           /\ ~Framed(c) /\ c.len > HTTPV2_CUSTOM_DATA_MIN_LENGTH
           /\ HttpParsePayload(log, cache, cfg, c.p, c.payload).ret = "Err"

\* C24: gRPC streaming data is reported only when enabled: with
\* grpc_streaming_data_enabled off a payload of DATA frames yields no Info,
\* with the flag on it yields Infos of msg_type Session only; a response
\* HEADERS frame without grpc-status is a Response with the flag off and a
\* Session with the flag on.  Stated in every reachable parser state.
C24_StreamingDataGated ==
    kind = "GrpcData" =>
        \A c \in GrpcDataCalls :
            LET r == HttpParsePayload(log, cache, cfg, c.p, c.payload)
                on == cfg.grpc_streaming_data_enabled
            IN /\ c.shape = "data" /\ ~on => r.infos = <<>> /\ r.msgs = <<>>
               /\ c.shape = "data" /\ on =>
                      /\ r.infos # <<>>
                      /\ \A i \in DOMAIN r.infos : r.infos[i].msg_type = "Session"
               /\ c.shape = "headers" =>
                      /\ r.infos # <<>>
                      /\ r.infos[1].msg_type = IF on THEN "Session" ELSE "Response"

\* C24 on the payloads in which no DATA frame of another stream follows an
\* open stream's DATA frame
C24_SingleStreamGated ==
    kind = "GrpcData" =>
        \A c \in GrpcDataCalls :
            LET r == HttpParsePayload(log, cache, cfg, c.p, c.payload)
                on == cfg.grpc_streaming_data_enabled
            IN c.payload # StreamData(0, 1) \o StreamData(1, 3) =>
               /\ c.shape = "data" /\ ~on => r.infos = <<>> /\ r.msgs = <<>>
               /\ c.shape = "data" /\ on =>
                      /\ r.infos # <<>>
                      /\ \A i \in DOMAIN r.infos : r.infos[i].msg_type = "Session"
               /\ c.shape = "headers" =>
                      /\ r.infos # <<>>
                      /\ r.infos[1].msg_type = IF on THEN "Session" ELSE "Response"

\* ------------------------------------------------------------------------
\* MySQL compression, truncation and latches (Spec, MySQL parsers).

\* the call on a parser of a connection without compression header
AsUncompressed(l, c, payload) ==
    [MysqlParsePayload([l EXCEPT !.has_compressed_header = Some(FALSE)], cache, cfg, c.p,
                       payload)
        EXCEPT !.log.has_compressed_header = l.has_compressed_header]
\* the calls that reach the packet decoder with a whole compression header
UnderHeader == {c \in MysqlCalls : c.p.tcp /\ Len(c.payload) >= COMPRESS_HEADER_LEN}

\* C25 as stated: on a connection classified as compressed, a payload with
\* uncompressed length 0 is decoded as plain packets from behind the header,
\* and every payload with a nonzero uncompressed length is zlib-decompressed.
C25_AlwaysDecompressed ==
    (kind = "MySQL" /\ log.has_compressed_header = Some(TRUE)) =>
        \A c \in UnderHeader :
            LET pp == PayloadParserNew(DecompressOf(cfg, c.p), TRUE, c.payload)
                inner == Drop(c.payload, COMPRESS_HEADER_LEN)
            IN IF UncompressedLen(c.payload) = 0
               THEN pp.err = "Ok" /\ pp.decoder = None /\ pp.payload = inner
               ELSE pp.err = "Ok" /\ pp.decoder = Some(ZlibStream(inner))

\* C25 (amended): on a connection classified as compressed, a payload with
\* uncompressed length 0 is decoded as plain packets from behind the header,
\* without decompression, and gives what those packets give on a connection
\* without compression; a payload with a nonzero uncompressed length is, when
\* mysql_decompress_payload is enabled, zlib-decompressed and its first packet
\* header is read from the decompressed stream, and is otherwise not decoded
\* at all (CompressedPacketNotParsed: no record for a request, a Response of
\* status ParseFailed for a response).
C25_PerPacketCompression ==
    (kind = "MySQL" /\ log.has_compressed_header = Some(TRUE)) =>
        \A c \in UnderHeader :
            LET d == DecompressOf(cfg, c.p)
                pp == PayloadParserNew(d, TRUE, c.payload)
                inner == Drop(c.payload, COMPRESS_HEADER_LEN)
                r == MysqlParsePayload(log, cache, cfg, c.p, c.payload)
            IN IF UncompressedLen(c.payload) = 0
               THEN /\ pp.err = "Ok" /\ pp.decoder = None /\ pp.payload = inner
                    /\ r = AsUncompressed(log, c, inner)
               ELSE IF d
               THEN /\ pp.err = "Ok" /\ pp.decoder = Some(ZlibStream(inner))
                    /\ LET f == try_next(pp) IN
                       IF Len(ZlibStream(inner)) < HEADER_LEN THEN f.err = "Truncated"
                       ELSE /\ f.header = MysqlHeader(Take(ZlibStream(inner), HEADER_LEN))
                            /\ WalkPackets(ZlibStream(inner), 0).ok =>
                                   r = AsUncompressed(log, c, ZlibStream(inner))
               ELSE /\ pp.err = "CompressedPacketNotParsed"
                    /\ IF c.p.dir = "c2s" THEN r.ret = "Err" /\ r.msgs = <<>>
                       ELSE /\ Len(r.msgs) = 1
                            /\ r.msgs[1].msg_type = "Response"
                            /\ r.msgs[1].status = "ParseFailed"
\* a compressed connection whose last payload gave a request
C25_Witness ==
    /\ kind = "MySQL" /\ log.has_compressed_header = Some(TRUE)
    /\ cfg.mysql_decompress_payload
    /\ out.op = "parse" /\ out.n >= 2 /\ out.ret = "Single"
    /\ out.msgs[1].msg_type = "Request"

\* C26: the compression classification is decided once: when a parser holds
\* a classification, no check_payload and no parse_payload call changes it,
\* whatever the payload.
C26_ClassifiedOnce ==
    [][(kind = "MySQL" /\ IsSome(log.has_compressed_header))
           => log'.has_compressed_header = log.has_compressed_header]_vars
\* a connection classified as uncompressed after further calls, the call set
\* holding payloads that a first call classifies as compressed
C26_Witness ==
    /\ kind = "MySQL" /\ log.has_compressed_header = Some(FALSE)
    /\ out.n = MaxCalls /\ out.op \in {"check", "parse"}
    /\ \E c \in MysqlCalls :
           /\ is_compressed(c.payload).ok /\ is_compressed(c.payload).val
           /\ MysqlParsePayload(log, cache, cfg, c.p, c.payload).log.has_compressed_header
                  = Some(FALSE)

\* the payload is a whole number (at least one) of consecutive packets, each
\* a 4-byte header and as many bytes as the header declares
RECURSIVE WholePackets(_)
WholePackets(payload) ==
    /\ Len(payload) >= HEADER_LEN
    /\ LET n == HEADER_LEN + MysqlHeader(payload).length IN
       \/ n = Len(payload)
       \/ n < Len(payload) /\ WholePackets(Drop(payload, n))
\* the calls that an unclassified parser classifies
Observed == {c \in MysqlCalls : c.p.tcp /\ is_raw_protocol(c.p.ebpf_type)}

\* C27: the first observed payload classifies the connection: as
\* uncompressed exactly when it is a whole number of consecutive
\* uncompressed packets, as compressed otherwise; classification never fails
\* (after check_payload and after parse_payload the parser is classified).
C27_FirstPayloadClassifies ==
    (kind = "MySQL" /\ IsNone(log.has_compressed_header)) =>
        \A c \in Observed :
            /\ MysqlCheckPayload(log, cfg, c.p, c.payload).log.has_compressed_header
                   = Some(~WholePackets(c.payload))
            /\ MysqlParsePayload(log, cache, cfg, c.p, c.payload).log.has_compressed_header
                   = Some(~WholePackets(c.payload))

\* What holds of C27: a classification, when one is made, is uncompressed
\* exactly for a whole number of packets.
C27_ClassifiedAsWalked ==
    (kind = "MySQL" /\ IsNone(log.has_compressed_header)) =>
        \A c \in Observed :
            LET h == MysqlParsePayload(log, cache, cfg, c.p, c.payload).log.has_compressed_header
            IN IsSome(h) => h = Some(~WholePackets(c.payload))

\* parse_payload on parser l meets Error::Truncated with call c: in the
\* classification of the first payload, or in parse
MeetsTruncated(l, c) ==
    LET h == IF IsNone(l.has_compressed_header)
             THEN check_compressed_header(l, c.payload)
             ELSE [ok |-> TRUE, log |-> l, panic |-> FALSE]
    IN \/ ~h.ok
       \/ MysqlParse(h.log, DecompressOf(cfg, c.p), c.payload, c.p.dir,
                     DefaultMysqlInfo).err = "Truncated"
\* the outcome of a truncated payload: a Response of status Ok from the
\* server, Ok without a record from the client
TruncatedOutcome(c, r) ==
    IF c.p.dir = "s2c"
    THEN /\ r.ret # "Err"
         /\ Len(r.msgs) = 1
         /\ r.msgs[1].msg_type = "Response" /\ r.msgs[1].status = "Ok"
    ELSE r.ret = "None" /\ r.msgs = <<>>

\* C28: truncation is never a hard failure: whenever parse_payload meets a
\* Truncated condition, the first payload of the connection included, a
\* server payload yields a Response of status Ok and a client payload yields
\* Ok with no record; no error is returned.
C28_TruncationNeverFails ==
    kind = "MySQL" =>
        \A c \in MysqlCalls :
            (c.p.tcp /\ MeetsTruncated(log, c)) =>
                TruncatedOutcome(c, MysqlParsePayload(log, cache, cfg, c.p, c.payload))

\* What holds of C28: the same on a parser that is already classified.
C28_TruncationAfterClassification ==
    (kind = "MySQL" /\ IsSome(log.has_compressed_header)) =>
        \A c \in MysqlCalls :
            (c.p.tcp /\ MeetsTruncated(log, c)) =>
                TruncatedOutcome(c, MysqlParsePayload(log, cache, cfg, c.p, c.payload))

\* whole server OK, EOF and ERR packets
ServerReplies == {c \in MysqlCalls : c.p.dir = "s2c" /\ c.payload \in {MY_OK, MY_EOF, MY_ERR, MY_ERR_CLIENT}}
ServerOkEof == {c \in ServerReplies : c.payload \in {MY_OK, MY_EOF}}
Latched(l) == l.has_login \/ l.has_request
\* l1 is l0 with one of its set latches cleared
Cleared(l0, l1) ==
    \/ l0.has_login /\ ~l1.has_login /\ l1.has_request = l0.has_request
    \/ l0.has_request /\ ~l1.has_request /\ l1.has_login = l0.has_login

\* C29: the request/response latches: a server OK, EOF or ERR packet is
\* reported as a Response only if the login latch or the command latch is
\* set, and reporting it clears the latch it answers: with neither latch set
\* it yields no record, a reported reply clears one set latch, and after a
\* reported reply to the one latch that was set a further reply with no
\* client packet in between yields no record.
C29_RepliesLatched ==
    (kind = "MySQL" /\ log.has_compressed_header = Some(FALSE)) =>
        \A c \in ServerReplies :
            LET r == MysqlParsePayload(log, cache, cfg, c.p, c.payload) IN
            /\ ~Latched(log) => r.ret = "None" /\ r.msgs = <<>>
            /\ r.msgs # <<>> => Cleared(log, r.log)
            /\ (r.msgs # <<>> /\ ~(log.has_login /\ log.has_request)) =>
                   /\ ~Latched(r.log)
                   /\ \A c2 \in ServerReplies :
                          MysqlParsePayload(r.log, r.cache, cfg, c2.p, c2.payload).msgs = <<>>

\* What holds of C29: the OK and EOF packets.
C29_OkEofLatched ==
    (kind = "MySQL" /\ log.has_compressed_header = Some(FALSE)) =>
        \A c \in ServerOkEof :
            LET r == MysqlParsePayload(log, cache, cfg, c.p, c.payload) IN
            /\ ~Latched(log) => r.ret = "None" /\ r.msgs = <<>>
            /\ r.msgs # <<>> => Cleared(log, r.log)
            /\ (r.msgs # <<>> /\ ~(log.has_login /\ log.has_request)) =>
                   /\ ~Latched(r.log)
                   /\ \A c2 \in ServerOkEof :
                          MysqlParsePayload(r.log, r.cache, cfg, c2.p, c2.payload).msgs = <<>>

\* how parse_payload on parser l ends with call c: "Greeting", or the error
\* of the classification or of parse ("Ok" when a message was parsed)
ParseOutcome(l, c) ==
    LET h == IF IsNone(l.has_compressed_header)
             THEN check_compressed_header(l, c.payload)
             ELSE [ok |-> TRUE, log |-> l, panic |-> FALSE]
        r(m) == IF m.err = "Ok" /\ m.is_greeting THEN "Greeting" ELSE m.err
    IN IF ~h.ok THEN "Truncated"
       ELSE r(MysqlParse(h.log, DecompressOf(cfg, c.p), c.payload, c.p.dir, DefaultMysqlInfo))
\* the call yields no record because of a greeting, an ignored packet, an
\* unsupported command or a truncated client payload
ZeroResult(l, c) ==
    LET o == ParseOutcome(l, c) IN
    \/ o \in {"Greeting", "IgnoredPacket", "CommandNotSupported"}
    \/ o = "Truncated" /\ c.p.dir = "c2s"
\* the statistics of l1 are those of l0
SameStatistics(l0, c0, l1, c1) ==
    /\ Counters(l1) = Counters(l0)
    /\ c1 = c0
    /\ l1.last_is_on_blacklist = l0.last_is_on_blacklist

\* C30: zero-result outcomes are side-effect free on statistics: a
\* parse_payload call that yields no record because of a server greeting, an
\* ignored packet, an unsupported command or a truncated client payload
\* returns Ok with zero records and changes no perf counter, no RRT aggregate
\* and not the last-blacklisted flag; an unsupported command leaves both
\* latches unchanged.
C30_ZeroResultOkAndPure ==
    kind = "MySQL" =>
        \A c \in MysqlCalls :
            (c.p.tcp /\ ZeroResult(log, c)) =>
                LET r == MysqlParsePayload(log, cache, cfg, c.p, c.payload) IN
                /\ r.ret = "None" /\ r.infos = <<>> /\ r.msgs = <<>>
                /\ SameStatistics(log, cache, r.log, r.cache)
                /\ ParseOutcome(log, c) = "CommandNotSupported" =>
                       /\ r.log.has_request = log.has_request
                       /\ r.log.has_login = log.has_login

\* What holds of C30: the frame, whatever the call returns.
C30_ZeroResultPure ==
    kind = "MySQL" =>
        \A c \in MysqlCalls :
            (c.p.tcp /\ ZeroResult(log, c)) =>
                LET r == MysqlParsePayload(log, cache, cfg, c.p, c.payload) IN
                /\ r.infos = <<>> /\ r.msgs = <<>>
                /\ IsSome(log.has_compressed_header) => r.ret = "None"
                /\ SameStatistics(log, cache, r.log, r.cache)
                /\ ParseOutcome(log, c) = "CommandNotSupported" =>
                       /\ r.log.has_request = log.has_request
                       /\ r.log.has_login = log.has_login

\* ------------------------------------------------------------------------
\* The parser contract: configuration, reset, perf_stats, protocol (Spec).

\* every call of the parser's call set, made without a parse configuration
WithoutConfig(k) == {[c EXCEPT !.p.has_config = FALSE] : c \in Calls(k)}
\* parse_payload of call c on the parser at hand
ParseOf(c) ==
    IF kind = "MySQL" THEN MysqlParsePayload(log, cache, cfg, c.p, c.payload)
    ELSE HttpParsePayload(log, cache, cfg, c.p, c.payload)
\* the call is refused: an error, no record, nothing counted, nothing changed
Refused(r) ==
    /\ r.ret = "Err" /\ r.infos = <<>> /\ r.msgs = <<>>
    /\ r.log = log /\ r.cache = cache

\* C31: a missing configuration is always surfaced: on every parser (HTTP/1,
\* HTTP/2, gRPC, MySQL) and for every payload, parse_payload without
\* parse_config returns an error, yields no record and changes no perf
\* counter and no parser state.
C31_MissingConfigSurfaced ==
    \A c \in WithoutConfig(kind) : Refused(ParseOf(c))

\* What holds of C31: the HTTP family.
C31_HttpMissingConfigSurfaced ==
    kind # "MySQL" => \A c \in WithoutConfig(kind) : Refused(ParseOf(c))

\* C32: HttpLog::reset preserves the configuration-level state: protocol(),
\* both HPACK decoders (present iff they were, with their tables), the
\* last-blacklisted flag and the perf accumulator with its counters are after
\* the reset what they were before it.
C32_ResetPreserves ==
    [][out'.op = "reset" =>
          /\ protocol(log') = protocol(log)
          /\ log'.http2_req_decoder = log.http2_req_decoder
          /\ log'.http2_resp_decoder = log.http2_resp_decoder
          /\ log'.last_is_on_blacklist = log.last_is_on_blacklist
          /\ log'.perf_stats = log.perf_stats]_vars
\* a reset of a parser that has counted a message and holds a dynamic table
\* entry, and a reset of a parser whose last message was blacklisted
C32_Witness ==
    /\ out.op = "reset"
    /\ \/ /\ Counters(log).request_count > 0
          /\ IsSome(log.http2_req_decoder) /\ log.http2_req_decoder[1] # <<>>
       \/ log.last_is_on_blacklist

\* C33: perf_stats() drains (DrainSpec): it leaves the accumulator empty, a
\* perf_stats() right after a perf_stats() returns None, and over every
\* sequence of parse_payload and perf_stats calls each counted message is in
\* exactly one drained result: what was drained and what the accumulator
\* still holds add up to what was counted.
C33_DrainedOnce ==
    /\ out.op = "perf_stats" => IsNone(log.perf_stats)
    /\ hist.drained[1] + Counters(log).request_count = hist.counted[1]
    /\ hist.drained[2] + Counters(log).response_count = hist.counted[2]
C33_DrainTwiceNone ==
    [][(out.op = "perf_stats" /\ out'.op = "perf_stats") => out'.ret = "None"]_vars
C33_Drains == [](C33_DrainedOnce) /\ C33_DrainTwiceNone
\* messages counted before a drain and after it, and a second drain
C33_Witness ==
    /\ out.op = "perf_stats" /\ out.ret = "Some" /\ out.n = MaxCalls
    /\ hist.drained[1] + hist.drained[2] >= 2

\* The path of an endpoint computation with its query string stripped, its
\* "/"-separated segments, and the segments that count.
Stripped(path) == Split(path, 63)[1]
CountedSeg(seg) == seg # <<>> /\ seg # <<46>>
NumCountedSegs(segs, n) == Cardinality({i \in 1..n : CountedSeg(segs[i])})
\* the number of leading segments kept when cutting after the k-th counted
\* segment, or after the last one when there are fewer than k
CutAt(segs, k) ==
    LET total == NumCountedSegs(segs, Len(segs))
        want == IF k < total THEN k ELSE total
    IN IF want = 0 THEN 0
       ELSE CHOOSE n \in 1..Len(segs) :
                NumCountedSegs(segs, n) = want /\ CountedSeg(segs[n])
CutPath(body, k) == Join(SubSeq(Split(body, 47), 1, CutAt(Split(body, 47), k)))
LessLeadingSlash(s) == IF s # <<>> /\ s[1] = 47 THEN Tail(s) ELSE s
\* C34 as stated: the result is "/" followed by the stripped path cut after
\* its k-th counted segment, whenever the path has k counted segments; "" when
\* rules are configured and none matches.
C34_SlashThenCut ==
    out.op = "handle_endpoint" =>
        IF out.n = 0 THEN out.ret = <<>>
        ELSE NumCountedSegs(Split(Stripped(log), 47), Len(Split(Stripped(log), 47))) >= out.n
             => out.ret = <<47>> \o CutPath(Stripped(log), out.n)
\* C34: handle_endpoint (EndpointSpec): the result is "/" followed by the
\* stripped path less one leading "/", cut after its k-th non-empty, non-"."
\* segment, or after the last such segment when there are fewer than k (only
\* "/" when there is none); k is the keep_segments of the longest matching
\* prefix, 2 without rules or when that rule has keep_segments 0; the result is
\* empty when rules are configured and none matches.
C34_Endpoint ==
    out.op = "handle_endpoint" =>
        /\ out.n = find_matching_rule(cfg, log)
        /\ cfg = {} => out.n = 2
        /\ (cfg # {} /\ \A r \in cfg : ~StartsWith(log, r.url_prefix)) => out.n = 0
        /\ IF out.n = 0 THEN out.ret = <<>>
           ELSE out.ret = <<47>> \o CutPath(LessLeadingSlash(Stripped(log)), out.n)
\* "//a/a/" without rules: cut after the second counted segment, the empty
\* segment before it kept
C34_Witness ==
    /\ out.op = "handle_endpoint"
    /\ log = <<47, 47, 97, 47, 97, 47>> /\ cfg = {} /\ out.ret = <<47, 47, 97, 47, 97>>

\* Side separation of one Info produced from a payload of direction dir
RequestSide(i) == i.msg_type = "Request" => i.status_code = 0 /\ IsNone(i.resp_content_length)
ResponseSide(i) == i.msg_type = "Response" => i.method = "None" /\ i.path = <<>> /\ i.host = <<>>
DirectionSide(i, dir) ==
    /\ dir = "c2s" => i.msg_type # "Response"
    /\ dir = "s2c" => i.msg_type # "Request"
\* C35: every HttpInfo returned by parse_payload respects side separation: a
\* Request has status_code 0 and no response content length, a Response has
\* no method and empty path and host, and the msg_type agrees with the
\* direction of the payload.
C35_SideSeparation ==
    kind # "MySQL" =>
        \A c \in Calls(kind) :
            \A r \in {HttpParsePayload(log, cache, cfg, c.p, c.payload)} :
                r.ret # "Err" =>
                    \A n \in DOMAIN r.infos :
                        /\ RequestSide(r.infos[n])
                        /\ ResponseSide(r.infos[n])
                        /\ DirectionSide(r.infos[n], c.p.dir)

\* C36: protocol() of a parser created with new_v1 is Http1 after every
\* sequence of check_payload, parse_payload, perf_stats and reset calls, an
\* HTTP/1 message with content-type: application/grpc included.
C36_Http1Static == kind = "Http1" => protocol(log) = "Http1"

\* a payload an HTTP/1 parser's check_payload accepts
Http1Accepts(c) == log.proto = "Http1" /\ HttpCheckPayload(log, cfg, c.p, c.payload).ret
AsRequest(c) == [c.p EXCEPT !.dir = "c2s", !.has_config = TRUE]
ParsedAsRequest(r) ==
    /\ r.ret # "Err"
    /\ r.infos # <<>>
    /\ \A n \in DOMAIN r.infos : r.infos[n].msg_type = "Request"
\* C37: every payload an HTTP/1 parser's check_payload accepts is parsed by
\* parse_payload, client to server and with a configuration, into a Request
\* record without error.
C37_AcceptedIsParsed ==
    kind \in {"Http1", "Http1Req", "Http1Side"} =>
        \A c \in Calls(kind) :
            Http1Accepts(c) =>
                ParsedAsRequest(HttpParsePayload(log, cache, cfg, AsRequest(c), c.payload))

\* C38: the HTTP/2 loop of parse_payload terminates: every iteration that
\* does not end the loop adds at least one byte to offset, so there are at most
\* Len(payload) + 1 of them and offset ends within one walk of the payload.
RECURSIVE SumSeq(_)
SumSeq(q) == IF q = <<>> THEN 0 ELSE Head(q) + SumSeq(Tail(q))
C38_LoopAdvances ==
    kind # "MySQL" =>
        \A c \in Calls(kind) :
            \A r \in {HttpParsePayload(log, cache, cfg, c.p, c.payload)} :
                /\ \A n \in DOMAIN r.steps : r.steps[n] >= 1
                /\ Len(r.steps) <= Len(c.payload) + 1
\* a payload of two streams walked in two iterations
C38_Witness ==
    /\ kind = "Http2Mux" /\ out.op = "parse"
    /\ \E c \in Calls(kind) : Len(HttpParsePayload(log, cache, cfg, c.p, c.payload).steps) >= 2

\* The process tree of a list: the index of a process's parent (0 when its
\* ppid is 0, absent from the list or its own pid), and lists in which every
\* chain of parents ends.
ParentOf(procs, i) ==
    IF procs[i].ppid = 0 \/ PidMap(procs, procs[i].ppid) = i THEN 0
    ELSE PidMap(procs, procs[i].ppid)
RECURSIVE ChainEnds(_, _, _)
ChainEnds(procs, i, n) ==
    \/ ParentOf(procs, i) = 0
    \/ n > 0 /\ ChainEnds(procs, ParentOf(procs, i), n - 1)
IsForest(procs) == \A i \in DOMAIN procs : ChainEnds(procs, i, Len(procs))
\* the tags of the ancestors of process i, nearest first
RECURSIVE AncestorTags(_, _, _)
AncestorTags(procs, i, n) ==
    IF ParentOf(procs, i) = 0 \/ n = 0 THEN <<>>
    ELSE procs[ParentOf(procs, i)].os_app_tags
         \o AncestorTags(procs, ParentOf(procs, i), n - 1)
\* own tags, then the ancestors' tags whose key no earlier tag has
SpreadTags(procs, i) ==
    LET own == procs[i].os_app_tags
        all == own \o AncestorTags(procs, i, Len(procs))
        kept(j) == j <= Len(own) \/ \A e \in 1..(j - 1) : all[e].key # all[j].key
        RECURSIVE pick(_)
        pick(j) == IF j > Len(all) THEN <<>>
                   ELSE (IF kept(j) THEN <<all[j]>> ELSE <<>>) \o pick(j + 1)
    IN pick(1)
\* C39: fill_child_proc_tag_by_parent (TagSpec): whatever the order of the
\* list, each process holds after the call its own tags, then those of its
\* parent, grandparent and every further ancestor present in the list, less
\* the keys it already has; a process whose ppid is 0 or whose parent is
\* absent keeps its own tags; pid and ppid are untouched.
C39_TagsSpread ==
    (out.op = "fill" /\ ~out.panic) =>
        /\ IsForest(log)
        /\ Len(out.ret) = Len(log)
        /\ \A i \in DOMAIN log :
              /\ out.ret[i].pid = log[i].pid /\ out.ret[i].ppid = log[i].ppid
              /\ out.ret[i].os_app_tags = SpreadTags(log, i)
              /\ ParentOf(log, i) = 0 => out.ret[i].os_app_tags = log[i].os_app_tags
\* a child listed before its parent and grandparent: it takes key a from the
\* parent and key b from the grandparent, whose a it skips
C39_Witness ==
    /\ out.op = "fill"
    /\ log = <<[pid |-> 1, ppid |-> 2, os_app_tags |-> <<>>],
               [pid |-> 2, ppid |-> 3, os_app_tags |-> <<Tag("a", 2)>>],
               [pid |-> 3, ppid |-> 0, os_app_tags |-> <<Tag("a", 3), Tag("b", 3)>>]>>
    /\ out.ret[1].os_app_tags = <<Tag("a", 2), Tag("b", 3)>>
\* C40: fill_child_proc_tag_by_parent terminates for every process list, lists
\* with a cycle of two or more processes in the pid/ppid relation included.
C40_Terminates == out.op = "fill" => ~out.panic

====
